---- MODULE Spec2Model ----
(***************************************************************************)
(* video2post: the map-reduce summarization pipeline of                    *)
(* src/src/summarizer.py (VideoSummarizer), the acquisition of the         *)
(* transcript by src/src/video_processor.py (VideoProcessor) and           *)
(* src/src/youtube_subtitles.py (YouTubeSubtitlesExtractor), the           *)
(* transcription wrapper of src/src/transcription.py, the subtitle parser  *)
(* _parse_subtitle_file and the bot of src/src/telegram_bot.py.  Each part *)
(* has its own specification (Spec, SplitSpec, AcqSpec, TrSpec, ParseSpec, *)
(* BotSpec); a run of one part leaves the variables of the others idle.    *)
(*                                                                         *)
(* Texts.  A text is a sequence of segments separated by whitespace; a     *)
(* segment is a run of words (words >= 1) whose last word does             *)
(* (punct = TRUE) or does not (punct = FALSE) end with one of . ! ? .  A   *)
(* text may end with the segment TrailingSpace (no word): whitespace after *)
(* its last word.  The empty text is the empty sequence.  The kind and     *)
(* amount of whitespace are not represented: str.split() and the \s+ of    *)
(* the sentence regex treat every run of whitespace alike.  A sentence is  *)
(* represented by its position in the sentence sequence of the text (idx)  *)
(* and its number of words (words), which is all the algorithm reads of    *)
(* it; the sentence after a final ". " is the empty string, of 0 words.    *)
(*                                                                         *)
(* Token estimates.  The code computes len(x.split()) * 1.3 in floating    *)
(* point.  The model computes the same quantity exactly, in tenths of a    *)
(* token: 13 * words.  A limit of L tokens is 10 * L tenths.               *)
(***************************************************************************)
EXTENDS Integers, Sequences, FiniteSets, TLC

\* ---------------------------------------------------------------- bounds
\* The users who write to the bot (BotSpec).
MaxUsers == 2
MaxFiles == 2
MaxParts == 2

\* The subtitle files given to _parse_subtitle_file (ParseSpec): the number
\* of lines and the number of symbols of a line.
MaxLines == 3
MaxLineLen == 2

\* Inputs of the splitter taken alone (SplitSpec).
MaxSegs == 4
MaxWords == 2
MaxTokens == 6
MaxOverlap == 4
\* Inputs of the whole pipeline (Spec).
MaxPipelineSegs == 3

\* ------------------------------------------------------ program constants
\* 1.3 tokens per word, in tenths.
TokenRatio10 == 13
\* if estimated_tokens < 8000
DirectThreshold == 8000
\* max_tokens: int = 3000, overlap: int = 200
DefaultMaxTokens == 3000
DefaultOverlap == 200

\* Word counts of the segments of a pipeline transcript: a sentence that fits
\* in the overlap (130 tokens), one that fits in a chunk (2990 tokens), one
\* that does not (4030 tokens).
PipelineWords == {100, 2300, 3100}

VARIABLES
    transcript,    \* the text: the argument of summarize / _split_into_chunks
    max_tokens,    \* _split_into_chunks' max_tokens
    overlap,       \* _split_into_chunks' overlap
    chunks,        \* the list _split_into_chunks returned
    pc,            \* where the call is
    tasks,         \* the chunk tasks of _map_summarize_chunks, in creation order
    completed,     \* indexes of the finished chunk tasks, in completion order
    reduce_input,  \* combined_summary, the text handed to the reduce call
    result,        \* the value summarize returned
    error,         \* the exception summarize raised
    calls,         \* history: how often each operation was invoked
    entry,         \* the acquisition method that was called
    proxy,         \* VideoProcessor.proxy is set
    openai_api_key, \* VideoProcessor.openai_api_key is set
    proxy_dict,    \* YouTubeSubtitlesExtractor.proxy_dict
    tracks,        \* the caption tracks of the video, by language
    acq_pc,        \* where the acquisition is
    attempt,       \* the loop variable of _get_transcript_sync
    log,           \* history: the attempts and the sleeps, in order
    acquired,      \* the transcript the acquisition returned
    acq_error,     \* the exception the acquisition raised
    disk,          \* the files the acquisition wrote that still exist
    transcription, \* the Transcription object: its fields
    audio,         \* the file at audio_path: whether it exists, its size
    tr_pc,         \* where the call of transcribe_audio is
    tr_error,      \* the exception the constructor or transcribe raised
    tr_log,        \* history: the requests sent to the remote services
    subtitle_file, \* the lines of the subtitle file
    parsed,        \* the text _parse_subtitle_file returned
    parse_pc,      \* where the call of _parse_subtitle_file is
    authorized_user_ids, \* TelegramBot.authorized_user_ids
    is_running,    \* TelegramBot.is_running
    start_pc,      \* where TelegramBot.start is
    stop_called,   \* history: TelegramBot.stop was called
    shutdown_log,  \* history: the shutdown calls start made, in order
    update,        \* the update a handler is processing
    handler_pc,    \* where the handler is
    handler_log,   \* history: what the handler did besides replying
    sent,          \* history: the replies the handler sent, in order
    temp_video,    \* the temporary video file of the handler exists
    temp_folder,   \* the entries of DownloadManager.temp_folder
    clock,         \* the wall clock and the clock of the event loop, in seconds
    max_age_hours, \* cleanup_temp_folder's max_age_hours
    visited,       \* the entries the loop of cleanup_temp_folder has been at
    unlinked,      \* history: the entries cleanup_temp_folder removed
    cleanup_pc,    \* where the call of cleanup_temp_folder is
    send_result,   \* the dictionary handed to _send_video_summary
    send_pc,       \* where the call of _send_video_summary is
    outbox,        \* history: the reply_text calls of _send_video_summary
    post_input,    \* the arguments of generate_post and the Claude client
    post_pc,       \* where the call of generate_post is
    post_request,  \* history: the request _generate_post_sync sent
    youtube_url    \* the argument of process_youtube_url / get_subtitles

sumVars == <<transcript, max_tokens, overlap, chunks, pc, tasks, completed,
             reduce_input, result, error, calls>>

acqVars == <<entry, proxy, openai_api_key, proxy_dict, tracks, acq_pc, attempt,
             log, acquired, acq_error, disk>>

trVars == <<transcription, audio, tr_pc, tr_error, tr_log>>

parseVars == <<subtitle_file, parsed, parse_pc>>

botVars == <<authorized_user_ids, is_running, start_pc, stop_called,
             shutdown_log, update, handler_pc, handler_log, sent,
             temp_video>>

dmVars == <<temp_folder, clock, max_age_hours, visited, unlinked, cleanup_pc>>

sendVars == <<send_result, send_pc, outbox>>

cgVars == <<post_input, post_pc, post_request>>

\* The variables of the helpers around the pipeline, and the URL handed to
\* the acquisition, which no step changes.
extraVars == <<dmVars, sendVars, cgVars, youtube_url>>

\* The variables of the transcription wrapper, the subtitle parser, the bot
\* and the helpers, which the summarizer and the acquisition leave alone.
auxVars == <<trVars, parseVars, botVars, extraVars>>

vars == <<transcript, max_tokens, overlap, chunks, pc, tasks, completed,
          reduce_input, result, error, calls,
          entry, proxy, openai_api_key, proxy_dict, tracks, acq_pc, attempt,
          log, acquired, acq_error, disk,
          transcription, audio, tr_pc, tr_error, tr_log,
          subtitle_file, parsed, parse_pc,
          authorized_user_ids, is_running, start_pc, stop_called,
          shutdown_log, update, handler_pc, handler_log, sent,
          temp_video,
          temp_folder, clock, max_age_hours, visited, unlinked, cleanup_pc,
          send_result, send_pc, outbox,
          post_input, post_pc, post_request, youtube_url>>

\* ------------------------------------------------------------- sequences
RECURSIVE SumWords(_)
SumWords(sentences) ==
    IF sentences = <<>> THEN 0
    ELSE Head(sentences).words + SumWords(Tail(sentences))

RECURSIVE Flatten(_)
Flatten(seqs) ==
    IF seqs = <<>> THEN <<>> ELSE Head(seqs) \o Flatten(Tail(seqs))

LastN(s, n) == SubSeq(s, Len(s) - n + 1, Len(s))

SeqsUpTo(S, n) == UNION {[1..k -> S] : k \in 0..n}

\* Whitespace at the end of a text.
TrailingSpace == [words |-> 0, punct |-> FALSE]

\* The texts of at most n segments, with and without whitespace at the end.
Texts(S, n) == {body \o tail : body \in SeqsUpTo(S, n),
                               tail \in {<<>>, <<TrailingSpace>>}}

\* ---------------------------------------------------- _split_into_chunks
\* len(x.split()) * 1.3, in tenths of a token.
EstimatedTokens10(words) == TokenRatio10 * words

SentenceSize(sentence) == EstimatedTokens10(sentence.words)

\* re.split(r'(?<=[.!?])\s+', text): the word counts of the sentences. The
\* text is cut at every run of whitespace that follows a word ending with
\* . ! ? ; what is left behind the last cut, be it empty, is the last
\* sentence, and a text without a cut is one sentence.
RECURSIVE SentenceWordCounts(_, _)
SentenceWordCounts(text, acc) ==
    IF text = <<>> THEN <<acc>>
    ELSE IF Head(text).punct /\ Tail(text) # <<>>
         THEN <<acc + Head(text).words>> \o SentenceWordCounts(Tail(text), 0)
         ELSE SentenceWordCounts(Tail(text), acc + Head(text).words)

SplitSentences(text) ==
    LET wc == SentenceWordCounts(text, 0)
    IN  [i \in 1..Len(wc) |-> [idx |-> i, words |-> wc[i]]]

\* for s in reversed(current_chunk): ... else: break
RECURSIVE OverlapWalk(_, _, _, _)
OverlapWalk(current_chunk, k, ov, overlap_limit) ==
    IF k = 0 THEN ov
    ELSE LET s_size == SentenceSize(current_chunk[k])
         IN  IF ov.tokens + s_size <= 10 * overlap_limit
             THEN OverlapWalk(current_chunk, k - 1,
                              [chunk  |-> <<current_chunk[k]>> \o ov.chunk,
                               tokens |-> ov.tokens + s_size],
                              overlap_limit)
             ELSE ov

\* The same walk without the break: a sentence that does not fit is skipped.
RECURSIVE OverlapWalkNoBreak(_, _, _, _)
OverlapWalkNoBreak(current_chunk, k, ov, overlap_limit) ==
    IF k = 0 THEN ov
    ELSE LET s_size == SentenceSize(current_chunk[k])
         IN  IF ov.tokens + s_size <= 10 * overlap_limit
             THEN OverlapWalkNoBreak(current_chunk, k - 1,
                              [chunk  |-> <<current_chunk[k]>> \o ov.chunk,
                               tokens |-> ov.tokens + s_size],
                              overlap_limit)
             ELSE OverlapWalkNoBreak(current_chunk, k - 1, ov, overlap_limit)

SeedOverlapNoBreak(current_chunk, overlap_limit) ==
    OverlapWalkNoBreak(current_chunk, Len(current_chunk),
                       [chunk |-> <<>>, tokens |-> 0], overlap_limit)

\* overlap_chunk and overlap_tokens after the walk over the closed chunk.
SeedOverlap(current_chunk, overlap_limit) ==
    OverlapWalk(current_chunk, Len(current_chunk),
                [chunk |-> <<>>, tokens |-> 0], overlap_limit)

\* A chunk of the returned list: " ".join(current_chunk) keeps the words of its
\* sentences in order; seeded (history) is the number of its leading sentences
\* that were seeded from the chunk before it.
ClosedChunk(st) == [sentences |-> st.current_chunk, seeded |-> st.seeded]

\* The loop body forgetting the sentence that closed a chunk.
SplitStepDropsOnClose(st, sentence, max_limit, overlap_limit) ==
    LET sentence_size == SentenceSize(sentence)
        ov == SeedOverlap(st.current_chunk, overlap_limit)
    IN  IF st.current_size + sentence_size > 10 * max_limit /\ st.current_chunk # <<>>
        THEN [chunks        |-> Append(st.chunks, ClosedChunk(st)),
              current_chunk |-> ov.chunk,
              current_size  |-> ov.tokens,
              seeded        |-> Len(ov.chunk)]
        ELSE [st EXCEPT !.current_chunk = Append(@, sentence),
                        !.current_size = @ + sentence_size]

\* The loop body testing the size of the chunk before the sentence is added.
SplitStepLateClose(st, sentence, max_limit, overlap_limit) ==
    LET sentence_size == SentenceSize(sentence)
        ov == SeedOverlap(st.current_chunk, overlap_limit)
        st1 == IF st.current_size > 10 * max_limit /\ st.current_chunk # <<>>
               THEN [chunks        |-> Append(st.chunks, ClosedChunk(st)),
                     current_chunk |-> ov.chunk,
                     current_size  |-> ov.tokens,
                     seeded        |-> Len(ov.chunk)]
               ELSE st
    IN  [st1 EXCEPT !.current_chunk = Append(@, sentence),
                    !.current_size = @ + sentence_size]

\* One iteration of "for sentence in sentences".
SplitStep(st, sentence, max_limit, overlap_limit) ==
    LET sentence_size == SentenceSize(sentence)
        ov == SeedOverlap(st.current_chunk, overlap_limit)
        st1 == IF st.current_size + sentence_size > 10 * max_limit
                  /\ st.current_chunk # <<>>
               THEN [chunks        |-> Append(st.chunks, ClosedChunk(st)),
                     current_chunk |-> ov.chunk,
                     current_size  |-> ov.tokens,
                     seeded        |-> Len(ov.chunk)]
               ELSE st
    IN  [st1 EXCEPT !.current_chunk = Append(@, sentence),
                    !.current_size = @ + sentence_size]

RECURSIVE SplitLoop(_, _, _, _)
SplitLoop(st, sentences, max_limit, overlap_limit) ==
    IF sentences = <<>> THEN st
    ELSE SplitLoop(SplitStep(st, Head(sentences), max_limit, overlap_limit),
                   Tail(sentences), max_limit, overlap_limit)

SplitIntoChunks(text, max_limit, overlap_limit) ==
    LET st == SplitLoop([chunks |-> <<>>, current_chunk |-> <<>>,
                         current_size |-> 0, seeded |-> 0],
                        SplitSentences(text), max_limit, overlap_limit)
    IN  IF st.current_chunk # <<>>
        THEN Append(st.chunks, ClosedChunk(st))
        ELSE st.chunks

\* len(chunk.split()) * 1.3 of a returned chunk, in tenths.
ChunkEstimate10(chunk) == EstimatedTokens10(SumWords(chunk.sentences))

\* ------------------------------------------------------------- summarize
NoValue == [by |-> "none"]
NoError == [type |-> "none", call |-> "none", index |-> 0]
NoCalls == [split |-> 0, direct |-> 0, map |-> <<>>, reduce |-> 0]

TextWords(text) == SumWords(text)

\* if estimated_tokens < 8000 (with a wrong limit)
UseDirectWrongLimit(text) ==
    EstimatedTokens10(TextWords(text)) < 10 * DefaultMaxTokens

\* if estimated_tokens < 8000
UseDirect(text) ==
    EstimatedTokens10(TextWords(text)) < 10 * DirectThreshold

\* The reply of the chat-completion service to one request.
DirectReply(text) == [by |-> "direct"]
ChunkReply(i)     == [by |-> "chunk", of |-> i]
ReduceReply(combined) == [by |-> "reduce", of |-> combined]

\* raise Exception(f"...: {str(e)}")
Wrapped(call, i) == [type |-> "Exception", call |-> call, index |-> i]

\* asyncio.gather handing the results back in completion order.
GatherResultsByCompletion(ts, done_order) ==
    [k \in 1..Len(ts) |-> ts[done_order[k]].result]

\* asyncio.gather(*tasks): the results in the order of the tasks.
GatherResults(ts, done_order) ==
    [k \in 1..Len(ts) |-> ts[k].result]

\* "--- Часть {i+1} ---\n{summary}" for i, summary in enumerate(summaries)
CombinedSummary(summaries) ==
    [k \in 1..Len(summaries) |-> [part |-> k, summary |-> summaries[k]]]

\* gather resolving as soon as one task has a result.
GatherResolvedEarly(ts) == \E k \in 1..Len(ts) : ts[k].state = "done"

\* gather without return_exceptions resolves when every task has a result.
GatherResolved(ts) == \A k \in 1..Len(ts) : ts[k].state = "done"

FailedIn(ts, done_order) ==
    {k \in 1..Len(done_order) : ts[done_order[k]].state = "failed"}

\* The last failure instead of the first.
LastFailed(ts, done_order) ==
    done_order[CHOOSE k \in FailedIn(ts, done_order) :
                   \A j \in FailedIn(ts, done_order) : j <= k]

\* gather propagates the first exception raised.
FirstFailed(ts, done_order) ==
    done_order[CHOOSE k \in FailedIn(ts, done_order) :
                   \A j \in FailedIn(ts, done_order) : k <= j]

SummarizeDirect ==
    /\ pc = "start"
    /\ UseDirect(transcript)
    /\ pc' = "direct"
    /\ calls' = [calls EXCEPT !.direct = @ + 1]
    /\ UNCHANGED <<acqVars, auxVars>>
    /\ UNCHANGED <<transcript, max_tokens, overlap, chunks, tasks, completed,
                   reduce_input, result, error>>

DirectReturn ==
    /\ pc = "direct"
    /\ pc' = "returned"
    /\ result' = DirectReply(transcript)
    /\ UNCHANGED <<acqVars, auxVars>>
    /\ UNCHANGED <<transcript, max_tokens, overlap, chunks, tasks, completed,
                   reduce_input, error, calls>>

DirectFail ==
    /\ pc = "direct"
    /\ pc' = "failed"
    /\ error' = Wrapped("direct", 0)
    /\ UNCHANGED <<acqVars, auxVars>>
    /\ UNCHANGED <<transcript, max_tokens, overlap, chunks, tasks, completed,
                   reduce_input, result, calls>>

\* chunks = self._split_into_chunks(transcript), then one task per chunk, each
\* handing its remote call to the executor when summarize awaits the gather.
SummarizeMapReduce ==
    /\ pc = "start"
    /\ ~UseDirect(transcript)
    /\ LET cs == SplitIntoChunks(transcript, max_tokens, overlap)
       IN  /\ chunks' = cs
           /\ tasks' = [k \in 1..Len(cs) |-> [state |-> "running", result |-> NoValue]]
           /\ calls' = [calls EXCEPT !.split = @ + 1,
                                     !.map = [k \in 1..Len(cs) |-> 1]]
    /\ pc' = "map"
    /\ UNCHANGED <<acqVars, auxVars>>
    /\ UNCHANGED <<transcript, max_tokens, overlap, completed, reduce_input,
                   result, error>>

\* A variant of ChunkDone in which the tasks share one cursor into the list of
\* results: the task that finishes writes the first slot still empty.
ChunkDoneSharedCursor(i) ==
    /\ tasks[i].state = "running"
    /\ LET slot == CHOOSE j \in 1..Len(tasks) :
                       /\ tasks[j].state = "running"
                       /\ \A h \in 1..(j - 1) : tasks[h].state # "running"
       IN  tasks' = [tasks EXCEPT ![slot] = [state |-> "done",
                                              result |-> ChunkReply(i)]]
    /\ completed' = Append(completed, i)
    /\ UNCHANGED <<acqVars, auxVars>>
    /\ UNCHANGED <<transcript, max_tokens, overlap, chunks, pc, reduce_input,
                   result, error, calls>>

\* _summarize_chunk_sync returns in its executor thread: the result becomes
\* the result of the task of that chunk.
ChunkDone(i) ==
    /\ tasks[i].state = "running"
    /\ tasks' = [tasks EXCEPT ![i] = [state |-> "done", result |-> ChunkReply(i)]]
    /\ completed' = Append(completed, i)
    /\ UNCHANGED <<acqVars, auxVars>>
    /\ UNCHANGED <<transcript, max_tokens, overlap, chunks, pc, reduce_input,
                   result, error, calls>>

\* A variant of ChunkFail that issues the failed call again, up to three times.
ChunkFailRetried(i) ==
    /\ tasks[i].state = "running"
    /\ IF calls.map[i] < 3
       THEN /\ calls' = [calls EXCEPT !.map[i] = @ + 1]
            /\ UNCHANGED <<tasks, completed>>
       ELSE /\ tasks' = [tasks EXCEPT ![i].state = "failed"]
            /\ completed' = Append(completed, i)
            /\ UNCHANGED calls
    /\ UNCHANGED <<acqVars, auxVars>>
    /\ UNCHANGED <<transcript, max_tokens, overlap, chunks, pc, reduce_input,
                   result, error>>

\* _summarize_chunk_sync raises in its executor thread.
ChunkFail(i) ==
    /\ tasks[i].state = "running"
    /\ tasks' = [tasks EXCEPT ![i].state = "failed"]
    /\ completed' = Append(completed, i)
    /\ UNCHANGED <<acqVars, auxVars>>
    /\ UNCHANGED <<transcript, max_tokens, overlap, chunks, pc, reduce_input,
                   result, error, calls>>

\* summaries = await asyncio.gather(*tasks); return await
\* self._reduce_summaries(chunk_summaries), up to the executor call.
GatherReturn ==
    /\ pc = "map"
    /\ GatherResolved(tasks)
    /\ reduce_input' = CombinedSummary(GatherResults(tasks, completed))
    /\ calls' = [calls EXCEPT !.reduce = @ + 1]
    /\ pc' = "reduce"
    /\ UNCHANGED <<acqVars, auxVars>>
    /\ UNCHANGED <<transcript, max_tokens, overlap, chunks, tasks, completed,
                   result, error>>

\* The gather raises the first exception of a task; summarize wraps it.
GatherRaise ==
    /\ pc = "map"
    /\ FailedIn(tasks, completed) # {}
    /\ error' = Wrapped("chunk", FirstFailed(tasks, completed))
    /\ pc' = "failed"
    /\ UNCHANGED <<acqVars, auxVars>>
    /\ UNCHANGED <<transcript, max_tokens, overlap, chunks, tasks, completed,
                   reduce_input, result, calls>>

ReduceReturn ==
    /\ pc = "reduce"
    /\ result' = ReduceReply(reduce_input)
    /\ pc' = "returned"
    /\ UNCHANGED <<acqVars, auxVars>>
    /\ UNCHANGED <<transcript, max_tokens, overlap, chunks, tasks, completed,
                   reduce_input, error, calls>>

ReduceFail ==
    /\ pc = "reduce"
    /\ error' = Wrapped("reduce", 0)
    /\ pc' = "failed"
    /\ UNCHANGED <<acqVars, auxVars>>
    /\ UNCHANGED <<transcript, max_tokens, overlap, chunks, tasks, completed,
                   reduce_input, result, calls>>

\* ============================================== acquisition of a transcript
\* src/src/video_processor.py (VideoProcessor.process_youtube_url) and
\* src/src/youtube_subtitles.py (YouTubeSubtitlesExtractor).
\*
\* A caption track is absent, has no segment ("empty") or has text ("text").
\* A transcript is represented by the strategy that produced it, the language
\* of the track it was read from, and whether it is the empty string.
Languages == {"ru", "en", "other"}
TrackContents == {"absent", "empty", "text"}

\* max_attempts = 3, retry_delay = 2
max_attempts == 3
retry_delay == 2

NoText == [strategy |-> "none", lang |-> "none", content |-> "none"]
\* The literal "" the extractor returns when it has nothing.
EmptyString == [strategy |-> "none", lang |-> "none", content |-> "empty"]
NoAcqError == [type |-> "none", at |-> "none", reasons |-> <<>>]

AcquisitionIdle ==
    /\ entry = "none"
    /\ proxy = FALSE
    /\ openai_api_key = FALSE
    /\ proxy_dict = "unset"
    /\ tracks = [l \in Languages |-> "absent"]
    /\ acq_pc = "idle"
    /\ attempt = 0
    /\ log = <<>>
    /\ acquired = NoText
    /\ acq_error = NoAcqError
    /\ disk = {}

\* What a call of the caption library raised, or the track it read.
Raised(name) == [raised |-> name, lang |-> "none", content |-> "none"]
Fetched(lang, content) == [raised |-> "none", lang |-> lang, content |-> content]

\* " ".join([item['text'] for item in transcript_list]): the empty string when
\* the track has no segment.
Joined(strategy, fetched) ==
    [strategy |-> strategy, lang |-> fetched.lang, content |-> fetched.content]

\* YouTubeTranscriptApi.list_transcripts: a video without any caption track
\* raises TranscriptsDisabled.  down: the request fails (network, throttling).
ListTranscripts(tr, down) ==
    IF down THEN "RequestError"
    ELSE IF \A l \in Languages : tr[l] = "absent" THEN "TranscriptsDisabled"
    ELSE "ok"

\* A variant of FirstPresent that takes the remaining track when none of langs
\* has one.
RECURSIVE FirstPresentOrAny(_, _)
FirstPresentOrAny(tr, langs) ==
    IF langs = <<>>
    THEN IF tr["other"] # "absent" THEN "other" ELSE "none"
    ELSE IF tr[Head(langs)] # "absent" THEN Head(langs)
    ELSE FirstPresentOrAny(tr, Tail(langs))

\* find_transcript(langs): the first language of langs that has a track.
RECURSIVE FirstPresent(_, _)
FirstPresent(tr, langs) ==
    IF langs = <<>> THEN "none"
    ELSE IF tr[Head(langs)] # "absent" THEN Head(langs)
    ELSE FirstPresent(tr, Tail(langs))

\* YouTubeTranscriptApi.get_transcript(video_id, languages=langs): list, find,
\* fetch.
GetTranscript(tr, langs, down) ==
    LET listed == ListTranscripts(tr, down)
        found == FirstPresent(tr, langs)
    IN  IF listed # "ok" THEN Raised(listed)
        ELSE IF found = "none" THEN Raised("NoTranscriptFound")
        ELSE Fetched(found, tr[found])

\* get_transcript(video_id) without languages asks for the library's default.
DefaultLanguages == <<"en">>

\* The requests of a caption query that fail, chosen by the environment.
ApiFaults == SUBSET {"list", "ru", "en", "default"}
ProxyFaults == SUBSET {"list", "ru", "en"}
SyncFaults == SUBSET {"list", "translate", "fetch"}

\* The ru-then-en request of _get_subtitles_via_api and _get_subtitles_via_proxy:
\* en is asked only when the ru request raised NoTranscriptFound or
\* TranscriptsDisabled.
RuThenEn(tr, faults) ==
    LET listed == ListTranscripts(tr, "list" \in faults)
        ru == GetTranscript(tr, <<"ru">>, "ru" \in faults)
    IN  IF listed # "ok" THEN Raised(listed)
        ELSE IF ru.raised \in {"NoTranscriptFound", "TranscriptsDisabled"}
             THEN GetTranscript(tr, <<"en">>, "en" \in faults)
             ELSE ru

\* _get_subtitles_via_api: any exception of the ru-then-en request leads to
\* get_transcript(video_id); its exception is wrapped.
GetSubtitlesViaApi(tr, faults) ==
    LET first == RuThenEn(tr, faults)
        auto == GetTranscript(tr, DefaultLanguages, "default" \in faults)
    IN  IF first.raised = "none" THEN first
        ELSE IF auto.raised = "none" THEN auto
        ELSE Raised("Exception")

\* _get_subtitles_via_proxy: the same request through the proxy, no second
\* request.
GetSubtitlesViaProxy(tr, faults) ==
    LET first == RuThenEn(tr, faults)
    IN  IF first.raised = "none" THEN first ELSE Raised("Exception")

\* One attempt of _get_transcript_sync: list, find ru, else find en and
\* translate it, fetch.
SyncAttemptResult(tr, faults) ==
    LET listed == ListTranscripts(tr, "list" \in faults)
        found == FirstPresent(tr, <<"ru">>)
        found_en == FirstPresent(tr, <<"en">>)
    IN  IF listed # "ok" THEN Raised(listed)
        ELSE IF found = "none" /\ found_en = "none" THEN Raised("NoTranscriptFound")
        ELSE IF found = "none" /\ "translate" \in faults THEN Raised("RequestError")
        ELSE IF "fetch" \in faults THEN Raised("RequestError")
        ELSE IF found # "none" THEN Fetched(found, tr[found])
        ELSE Fetched(found_en, tr[found_en])

\* The subtitle files yt-dlp writes for --sub-lang ru,en.
YtdlpFiles(tr) ==
    [l \in Languages |-> IF l \in {"ru", "en"} THEN tr[l] ELSE "absent"]

\* audio_path and video_path of _download_and_transcribe; a subtitle file
\* yt-dlp writes into the working directory, <video_id>.<lang>.vtt.
AudioFile == [kind |-> "audio", lang |-> "none"]
VideoFile == [kind |-> "video", lang |-> "none"]
SubtitleFile(l) == [kind |-> "subtitles", lang |-> l]

\* The files of those tracks, and the subtitle files os.listdir('.') finds
\* among the files d, with what each holds.
SubtitleFiles(files) ==
    {SubtitleFile(l) : l \in {x \in Languages : files[x] # "absent"}}
ListSubtitles(d, tr) ==
    [l \in Languages |-> IF SubtitleFile(l) \in d THEN tr[l] ELSE "absent"]

\* _process_ytdlp_subtitles: the ru file, else the en file, else the first file;
\* no file gives the empty string.
ProcessYtdlpSubtitles(files) ==
    LET preferred == FirstPresent(files, <<"ru", "en">>)
        lang == IF preferred # "none" THEN preferred
                ELSE IF files["other"] # "absent" THEN "other"
                ELSE "none"
    IN  IF lang = "none" THEN EmptyString
        ELSE [strategy |-> "ytdlp", lang |-> lang, content |-> files[lang]]

\* Where the external call of a strategy runs.  The caption requests of
\* process_youtube_url and get_subtitles and YoutubeDL.download are plain calls
\* inside a coroutine; the yt-dlp runs are child processes that the coroutine
\* awaits; _get_transcript_sync (its time.sleep included) and _transcribe_sync
\* are handed to run_in_executor.
Thread(strategy) ==
    CASE strategy \in {"api", "proxy", "lib_download", "get_subtitles"}
           -> "event_loop"
      [] strategy \in {"cli_download", "ytdlp_proxy", "ytdlp_direct"}
           -> "subprocess"
      [] strategy \in {"sync_proxy", "sync_direct", "whisper"}
           -> "executor"

\* An entry of the log: an attempt of a strategy (with the requests that
\* failed in it, the language it read and how it ended) or a sleep.
\* thread: where the call ran.
Attempted(strategy, proxied, faults, lang, outcome) ==
    [kind |-> "attempt", strategy |-> strategy, proxied |-> proxied,
     faults |-> faults, lang |-> lang, outcome |-> outcome, delay |-> 0,
     thread |-> Thread(strategy)]
Slept(seconds) ==
    [kind |-> "sleep", strategy |-> "none", proxied |-> FALSE,
     faults |-> {}, lang |-> "none", outcome |-> "none", delay |-> seconds,
     thread |-> "executor"]

\* What the log keeps of the failed requests of an attempt of a loop: whether
\* there was one.
Faulty(faults) == IF faults = {} THEN {} ELSE {"request"}

\* How an attempt that returned a transcript is logged.
OutcomeOf(text) == IF text.content = "text" THEN "text" ELSE "empty"

\* ------------------------------- the parts a run of another part leaves idle
NoTranscription ==
    [openai_api_key |-> FALSE, claude_api_key |-> FALSE, use_claude |-> FALSE,
     transcriber |-> "none"]
NoAudio == [exists |-> FALSE, size |-> 0]

TranscriptionIdle ==
    /\ transcription = NoTranscription
    /\ audio = NoAudio
    /\ tr_pc = "idle"
    /\ tr_error = "none"
    /\ tr_log = <<>>

ParseIdle ==
    /\ subtitle_file = <<>>
    /\ parsed = <<>>
    /\ parse_pc = "idle"

NoUpdate == [user |-> 0, kind |-> "none"]

BotIdle ==
    /\ authorized_user_ids = {}
    /\ is_running = "unset"
    /\ start_pc = "idle"
    /\ stop_called = FALSE
    /\ shutdown_log = <<>>
    /\ update = NoUpdate
    /\ handler_pc = "idle"
    /\ handler_log = <<>>
    /\ sent = <<>>
    /\ temp_video = FALSE

NoClock == [wall |-> 0, loop |-> 0]

CleanupIdle ==
    /\ temp_folder = {}
    /\ clock = NoClock
    /\ max_age_hours = 0
    /\ visited = {}
    /\ unlinked = {}
    /\ cleanup_pc = "idle"

NoResult == [summary |-> <<>>, transcript |-> <<>>]

SendIdle ==
    /\ send_result = NoResult
    /\ send_pc = "idle"
    /\ outbox = <<>>

NoPost == [text |-> <<>>, use_claude |-> FALSE, claude_client |-> FALSE]
NoRequest == [service |-> "none", text |-> <<>>, marker |-> FALSE]

PostIdle ==
    /\ post_input = NoPost
    /\ post_pc = "idle"
    /\ post_request = NoRequest

NoUrl == [host |-> "none", form |-> "none", id_chars |-> 0]

\* No helper is running.
HelpersIdle == CleanupIdle /\ SendIdle /\ PostIdle

\* No helper is running and no URL was handed over.
ExtraIdle == HelpersIdle /\ youtube_url = NoUrl

PipelineSegment == [words : PipelineWords, punct : BOOLEAN]

Init ==
    /\ transcript \in Texts(PipelineSegment, MaxPipelineSegs)
    /\ max_tokens = DefaultMaxTokens
    /\ overlap = DefaultOverlap
    /\ chunks = <<>>
    /\ pc = "start"
    /\ tasks = <<>>
    /\ completed = <<>>
    /\ reduce_input = <<>>
    /\ result = NoValue
    /\ error = NoError
    /\ calls = NoCalls
    /\ AcquisitionIdle
    /\ TranscriptionIdle
    /\ ParseIdle
    /\ BotIdle
    /\ ExtraIdle

Next ==
    \/ SummarizeDirect
    \/ DirectReturn
    \/ DirectFail
    \/ SummarizeMapReduce
    \/ \E i \in 1..Len(tasks) : ChunkDone(i)
    \/ \E i \in 1..Len(tasks) : ChunkFail(i)
    \/ GatherReturn
    \/ GatherRaise
    \/ ReduceReturn
    \/ ReduceFail

Spec == Init /\ [][Next]_vars

\* ------------------------------------------- _split_into_chunks taken alone
SplitSegment == [words : 1..MaxWords, punct : BOOLEAN]

SplitInit ==
    /\ transcript \in Texts(SplitSegment, MaxSegs)
    /\ max_tokens \in 1..MaxTokens
    /\ overlap \in 0..MaxOverlap
    /\ chunks = <<>>
    /\ pc = "split_call"
    /\ tasks = <<>>
    /\ completed = <<>>
    /\ reduce_input = <<>>
    /\ result = NoValue
    /\ error = NoError
    /\ calls = NoCalls
    /\ AcquisitionIdle
    /\ TranscriptionIdle
    /\ ParseIdle
    /\ BotIdle
    /\ ExtraIdle

SplitCall ==
    /\ pc = "split_call"
    /\ chunks' = SplitIntoChunks(transcript, max_tokens, overlap)
    /\ calls' = [calls EXCEPT !.split = @ + 1]
    /\ pc' = "split_returned"
    /\ UNCHANGED <<acqVars, auxVars>>
    /\ UNCHANGED <<transcript, max_tokens, overlap, tasks, completed,
                   reduce_input, result, error>>

SplitNext == SplitCall

SplitSpec == SplitInit /\ [][SplitNext]_vars

\* ------------------------------------------------ acquisition: the actions
\* return text / raise Exception(...) / go on at p.
AcqReturn(text) ==
    /\ acq_pc' = "returned"
    /\ acquired' = text
    /\ UNCHANGED acq_error

\* The strategies whose failure reason the message of the exception raised
\* at `at` contains: process_youtube_url raises a fixed text when there is no
\* key; _download_and_transcribe wraps str(e) of the one exception it caught.
Reasons(at) ==
    CASE at = "no_key" -> <<>>
      [] at = "download" -> <<"lib_download">>
      [] at \in {"file", "whisper"} -> <<"whisper">>

AcqRaise(at) ==
    /\ acq_pc' = "raised"
    /\ acq_error' = [type |-> "Exception", at |-> at, reasons |-> Reasons(at)]
    /\ UNCHANGED acquired

Goto(p) ==
    /\ acq_pc' = p
    /\ UNCHANGED <<acquired, acq_error>>

\* A variant of Fallback that gives up quietly when there is no key.
FallbackReturnsEmpty ==
    IF openai_api_key THEN Goto("cli_download") ELSE AcqReturn(EmptyString)

\* process_youtube_url after the caption strategies failed.
Fallback ==
    IF openai_api_key THEN Goto("cli_download") ELSE AcqRaise("no_key")

\* process_youtube_url after _get_subtitles_via_api raised.
AfterApiFailure ==
    IF proxy THEN Goto("proxy") ELSE Fallback

\* result = await self._get_subtitles_via_api(video_id); return result
ApiCaptions ==
    /\ acq_pc = "api"
    /\ \E faults \in ApiFaults :
         LET r == GetSubtitlesViaApi(tracks, faults)
         IN  IF r.raised = "none"
             THEN /\ log' = Append(log, Attempted("api", FALSE, faults, r.lang,
                                                  OutcomeOf(r)))
                  /\ AcqReturn(Joined("api", r))
             ELSE /\ log' = Append(log, Attempted("api", FALSE, faults, "none",
                                                  "failed"))
                  /\ AfterApiFailure
    /\ UNCHANGED <<entry, proxy, openai_api_key, proxy_dict, tracks,
                   attempt, disk>>
    /\ UNCHANGED <<sumVars, auxVars>>

\* A variant of ProxyCaptions that does not return the result it obtained.
ProxyCaptionsNoReturn ==
    /\ acq_pc = "proxy"
    /\ \E faults \in ProxyFaults :
         LET r == GetSubtitlesViaProxy(tracks, faults)
         IN  /\ log' = Append(log, Attempted("proxy", TRUE, faults, r.lang,
                                  IF r.raised = "none" THEN OutcomeOf(r)
                                  ELSE "failed"))
             /\ Fallback
    /\ UNCHANGED <<entry, proxy, openai_api_key, proxy_dict, tracks,
                   attempt, disk>>
    /\ UNCHANGED <<sumVars, auxVars>>

\* result = await self._get_subtitles_via_proxy(video_id); return result
ProxyCaptions ==
    /\ acq_pc = "proxy"
    /\ \E faults \in ProxyFaults :
         LET r == GetSubtitlesViaProxy(tracks, faults)
         IN  IF r.raised = "none"
             THEN /\ log' = Append(log, Attempted("proxy", TRUE, faults, r.lang,
                                                  OutcomeOf(r)))
                  /\ AcqReturn(Joined("proxy", r))
             ELSE /\ log' = Append(log, Attempted("proxy", TRUE, faults, "none",
                                                  "failed"))
                  /\ Fallback
    /\ UNCHANGED <<entry, proxy, openai_api_key, proxy_dict, tracks,
                   attempt, disk>>
    /\ UNCHANGED <<sumVars, auxVars>>

\* What the download left at audio_path.
AudioFiles == {"missing", "too_large", "ok"}

\* The file a download that ended well left on the disk.
Written(file) == IF file = "missing" THEN {} ELSE {AudioFile}

\* WhisperTranscriber.transcribe up to the executor call: the file must exist
\* and be at most 25 MB.
TranscribeStart(file) ==
    IF file = "ok" THEN Goto("whisper") ELSE AcqRaise("file")

\* A variant of DownloadCli in which a non-zero exit status ends the
\* acquisition.
DownloadCliAborts ==
    /\ acq_pc = "cli_download"
    /\ \E rc \in {"zero", "nonzero", "spawn_error"}, file \in AudioFiles :
         IF rc = "zero"
         THEN /\ log' = Append(log, Attempted("cli_download", proxy, {}, "none",
                                              "ok"))
              /\ disk' = disk \cup Written(file)
              /\ TranscribeStart(file)
         ELSE /\ log' = Append(log, Attempted("cli_download", proxy,
                                   IF rc = "nonzero" THEN {"exit"} ELSE {},
                                   "none", "failed"))
              /\ disk' = disk
              /\ IF rc = "nonzero" THEN AcqRaise("download")
                 ELSE Goto("lib_download")
    /\ UNCHANGED <<entry, proxy, openai_api_key, proxy_dict, tracks, attempt>>
    /\ UNCHANGED <<sumVars, auxVars>>

\* _download_and_transcribe: the yt-dlp process ended; --proxy is passed when
\* self.proxy is set.  A return code other than 0 raises inside the inner try,
\* whose except goes on with YoutubeDL.
DownloadCli ==
    /\ acq_pc = "cli_download"
    /\ \E rc \in {"zero", "nonzero", "spawn_error"}, file \in AudioFiles :
         IF rc = "zero"
         THEN /\ log' = Append(log, Attempted("cli_download", proxy, {}, "none",
                                              "ok"))
              /\ disk' = disk \cup Written(file)
              /\ TranscribeStart(file)
         ELSE /\ log' = Append(log, Attempted("cli_download", proxy,
                                   IF rc = "nonzero" THEN {"exit"} ELSE {},
                                   "none", "failed"))
              /\ disk' = disk
              /\ Goto("lib_download")
    /\ UNCHANGED <<entry, proxy, openai_api_key, proxy_dict, tracks, attempt>>
    /\ UNCHANGED <<sumVars, auxVars>>

\* _download_and_transcribe: YoutubeDL(ydl_opts).download returned or raised.
DownloadLibrary ==
    /\ acq_pc = "lib_download"
    /\ \E downloaded \in BOOLEAN, file \in AudioFiles :
         IF downloaded
         THEN /\ log' = Append(log, Attempted("lib_download", proxy, {}, "none",
                                              "ok"))
              /\ disk' = disk \cup Written(file)
              /\ TranscribeStart(file)
         ELSE /\ log' = Append(log, Attempted("lib_download", proxy, {}, "none",
                                              "failed"))
              /\ disk' = disk
              /\ AcqRaise("download")
    /\ UNCHANGED <<entry, proxy, openai_api_key, proxy_dict, tracks, attempt>>
    /\ UNCHANGED <<sumVars, auxVars>>

\* _transcribe_sync returned the text of the audio.
WhisperReturn ==
    /\ acq_pc = "whisper"
    /\ \E content \in {"text", "empty"} :
         LET text == [strategy |-> "whisper", lang |-> "ru", content |-> content]
         IN  /\ log' = Append(log, Attempted("whisper", FALSE, {}, "ru",
                                             OutcomeOf(text)))
             /\ AcqReturn(text)
    /\ disk' = disk \ {AudioFile, VideoFile}
    /\ UNCHANGED <<entry, proxy, openai_api_key, proxy_dict, tracks, attempt>>
    /\ UNCHANGED <<sumVars, auxVars>>

\* _transcribe_sync raised: transcribe and _download_and_transcribe wrap it.
WhisperFail ==
    /\ acq_pc = "whisper"
    /\ log' = Append(log, Attempted("whisper", FALSE, {}, "none", "failed"))
    /\ AcqRaise("whisper")
    /\ UNCHANGED <<entry, proxy, openai_api_key, proxy_dict, tracks,
                   attempt, disk>>
    /\ UNCHANGED <<sumVars, auxVars>>

\* A variant of SyncStart that starts with the no-proxy loop.
SyncStartDirectFirst ==
    /\ acq_pc = "sync"
    /\ attempt' = 0
    /\ Goto(IF proxy_dict = "unset" THEN "ytdlp" ELSE "sync_direct")
    /\ UNCHANGED <<entry, proxy, openai_api_key, proxy_dict, tracks, log, disk>>
    /\ UNCHANGED <<sumVars, auxVars>>

\* if self.proxy_dict: the constructor never sets the attribute, so reading
\* it raises AttributeError in the outer try of _get_transcript_sync, which
\* returns ""; _get_transcript then turns to yt-dlp.
SyncStart ==
    /\ acq_pc = "sync"
    /\ attempt' = 0
    /\ Goto(CASE proxy_dict = "unset" -> "ytdlp"
              [] proxy_dict = "set" -> "sync_proxy"
              [] proxy_dict = "none" -> "sync_direct")
    /\ UNCHANGED <<entry, proxy, openai_api_key, proxy_dict, tracks, log, disk>>
    /\ UNCHANGED <<sumVars, auxVars>>

\* A variant of SleepsAfter that also sleeps after the last attempt.
SleepsAfterEvery(k) == k < max_attempts

\* if attempt < max_attempts - 1: time.sleep(retry_delay)
SleepsAfter(k) == k < max_attempts - 1

\* One turn of a for attempt in range(max_attempts) loop of
\* _get_transcript_sync.  The requests are bounded by the socket timeout the
\* method sets: a request that does not answer is a failed request.
SyncAttempt ==
    /\ acq_pc \in {"sync_proxy", "sync_direct"}
    /\ attempt < max_attempts
    /\ \E faults \in SyncFaults :
         LET r == SyncAttemptResult(tracks, faults)
             proxied == acq_pc = "sync_proxy"
             failed == Attempted(acq_pc, proxied, Faulty(faults), "none",
                                 "failed")
         IN  IF r.raised = "none"
             THEN /\ log' = Append(log, Attempted(acq_pc, proxied, {}, r.lang,
                                                  OutcomeOf(r)))
                  /\ attempt' = attempt
                  /\ IF r.content = "text"
                     THEN AcqReturn(Joined(acq_pc, r))
                     ELSE Goto("ytdlp")
             ELSE IF SleepsAfter(attempt)
             THEN /\ log' = log \o <<failed, Slept(retry_delay)>>
                  /\ attempt' = attempt + 1
                  /\ Goto(acq_pc)
             ELSE /\ log' = Append(log, failed)
                  /\ attempt' = 0
                  /\ Goto(IF proxied THEN "sync_direct" ELSE "ytdlp")
    /\ UNCHANGED <<entry, proxy, openai_api_key, proxy_dict, tracks, disk>>
    /\ UNCHANGED <<sumVars, auxVars>>

\* _get_transcript_via_ytdlp: if self.proxy_dict; the AttributeError is caught
\* by the outer try, which returns "".
YtdlpStart ==
    /\ acq_pc = "ytdlp"
    /\ CASE proxy_dict = "unset" -> AcqReturn(EmptyString)
         [] proxy_dict = "set" -> Goto("ytdlp_proxy")
         [] proxy_dict = "none" -> Goto("ytdlp_direct")
    /\ UNCHANGED <<entry, proxy, openai_api_key, proxy_dict, tracks, attempt,
                   log, disk>>
    /\ UNCHANGED <<sumVars, auxVars>>

\* A yt-dlp run of _get_transcript_via_ytdlp ended: the process could not be
\* started, exited with a non-zero code, or exited with 0 with or without
\* subtitle files.
YtdlpRun ==
    /\ acq_pc \in {"ytdlp_proxy", "ytdlp_direct"}
    /\ \E run \in {"spawn_error", "nonzero", "no_files", "files"} :
         LET proxied == acq_pc = "ytdlp_proxy"
             after == IF run = "files"
                      THEN disk \cup SubtitleFiles(YtdlpFiles(tracks))
                      ELSE disk
             text == IF run \in {"files", "no_files"}
                     THEN ProcessYtdlpSubtitles(ListSubtitles(after, tracks))
                     ELSE EmptyString
         IN  /\ disk' = after \ {SubtitleFile(text.lang)}
             /\ IF text.content = "text"
                THEN /\ log' = Append(log, Attempted(acq_pc, proxied, {},
                                                     text.lang, "text"))
                     /\ AcqReturn([text EXCEPT !.strategy = acq_pc])
                ELSE /\ log' = Append(log, Attempted(acq_pc, proxied,
                                          IF run = "nonzero" THEN {"exit"} ELSE {},
                                          "none",
                                          IF run \in {"files", "no_files"}
                                          THEN "empty" ELSE "failed"))
                     /\ IF proxied THEN Goto("ytdlp_direct")
                        ELSE AcqReturn(EmptyString)
    /\ UNCHANGED <<entry, proxy, openai_api_key, proxy_dict, tracks, attempt>>
    /\ UNCHANGED <<sumVars, auxVars>>

\* get_subtitles: get_video_info never raises; one request for ru or en; any
\* exception leaves transcript_text = "" and the method returns normally.
GetSubtitles ==
    /\ acq_pc = "get_subtitles"
    /\ \E down \in BOOLEAN :
         LET r == GetTranscript(tracks, <<"ru", "en">>, down)
         IN  IF r.raised = "none"
             THEN /\ log' = Append(log, Attempted("get_subtitles", FALSE, {},
                                                  r.lang, OutcomeOf(r)))
                  /\ AcqReturn(Joined("get_subtitles", r))
             ELSE /\ log' = Append(log, Attempted("get_subtitles", FALSE,
                                       Faulty(IF down THEN {"list"} ELSE {}),
                                       "none", "failed"))
                  /\ AcqReturn(EmptyString)
    /\ UNCHANGED <<entry, proxy, openai_api_key, proxy_dict, tracks,
                   attempt, disk>>
    /\ UNCHANGED <<sumVars, auxVars>>

\* The external calls that are awaited or made without any timeout.
Unbounded == {"api", "proxy", "cli_download", "lib_download", "whisper",
              "ytdlp_proxy", "ytdlp_direct", "get_subtitles"}

\* Whether the call made at p goes through the proxy.
ProxiedAt(p) ==
    \/ p \in {"proxy", "ytdlp_proxy"}
    \/ p \in {"cli_download", "lib_download"} /\ proxy

\* The external call never answers: nothing bounds the wait.
ExternalCallHangs ==
    /\ acq_pc \in Unbounded
    /\ log' = Append(log, Attempted(acq_pc, ProxiedAt(acq_pc), {}, "none", "hung"))
    /\ Goto("hung")
    /\ UNCHANGED <<entry, proxy, openai_api_key, proxy_dict, tracks,
                   attempt, disk>>
    /\ UNCHANGED <<sumVars, auxVars>>

SummarizeIdle ==
    /\ transcript = <<>>
    /\ max_tokens = DefaultMaxTokens
    /\ overlap = DefaultOverlap
    /\ chunks = <<>>
    /\ pc = "idle"
    /\ tasks = <<>>
    /\ completed = <<>>
    /\ reduce_input = <<>>
    /\ result = NoValue
    /\ error = NoError
    /\ calls = NoCalls

\* ----------------------------------------------------- the id of the video
\* A URL by what the two patterns look at: its host, whether the characters
\* of the id follow "watch?v=" or the slash of the host, and how many
\* characters there are that can be part of an id.
IdLength == 11

Urls == [host : {"youtube.com", "youtu.be", "other"},
         form : {"watch", "path"},
         id_chars : {IdLength - 1, IdLength}]

WatchUrl == [host |-> "youtube.com", form |-> "watch", id_chars |-> IdLength]

\* A variant of VP_extract_video_id that is content with one character less.
VP_extract_video_id_short(url) ==
    IF url.host \in {"youtube.com", "youtu.be"} /\ url.id_chars >= IdLength - 1
    THEN "found" ELSE "none"

\* VideoProcessor._extract_video_id: re.search(YOUTUBE_URL_PATTERN, url), the
\* host (youtube|youtu).(com|be), an optional watch?v= and 11 characters.
VP_extract_video_id(url) ==
    IF url.host \in {"youtube.com", "youtu.be"} /\ url.id_chars >= IdLength
    THEN "found" ELSE "none"

\* YouTubeSubtitlesExtractor.extract_video_id: youtube.com with ...v= before
\* the 11 characters, or youtu.be/ with the 11 characters right behind.
extract_video_id(url) ==
    IF /\ url.id_chars >= IdLength
       /\ \/ url.host = "youtube.com" /\ url.form = "watch"
          \/ url.host = "youtu.be" /\ url.form = "path"
    THEN "found" ELSE "none"

\* video_id = self._extract_video_id(youtube_url); if not video_id: raise
\* ValueError(...), which process_youtube_url raises again and get_subtitles
\* wraps into an Exception.
ExtractId ==
    /\ acq_pc = "called"
    /\ IF entry = "process_youtube_url"
       THEN IF VP_extract_video_id(youtube_url) = "none"
            THEN /\ acq_pc' = "raised"
                 /\ acq_error' = [type |-> "ValueError", at |-> "url",
                                   reasons |-> <<>>]
            ELSE acq_pc' = "api" /\ UNCHANGED acq_error
       ELSE IF extract_video_id(youtube_url) = "none"
            THEN /\ acq_pc' = "raised"
                 /\ acq_error' = [type |-> "Exception", at |-> "url",
                                   reasons |-> <<>>]
            ELSE acq_pc' = "get_subtitles" /\ UNCHANGED acq_error
    /\ UNCHANGED <<entry, proxy, openai_api_key, proxy_dict, tracks,
                   attempt, log, acquired, disk>>
    /\ UNCHANGED <<sumVars, auxVars>>

\* process_youtube_url or get_subtitles called with a URL.
UrlInit ==
    /\ SummarizeIdle
    /\ TranscriptionIdle
    /\ ParseIdle
    /\ BotIdle
    /\ HelpersIdle
    /\ youtube_url \in Urls
    /\ tracks \in [Languages -> TrackContents]
    /\ \/ /\ entry = "process_youtube_url"
          /\ proxy \in BOOLEAN
          /\ openai_api_key \in BOOLEAN
       \/ /\ entry = "get_subtitles"
          /\ proxy = FALSE
          /\ openai_api_key = FALSE
    /\ proxy_dict = "unset"
    /\ acq_pc = "called"
    /\ attempt = 0
    /\ log = <<>>
    /\ acquired = NoText
    /\ acq_error = NoAcqError
    /\ disk = {}

UrlNext ==
    \/ ExtractId
    \/ ApiCaptions
    \/ ProxyCaptions
    \/ DownloadCli
    \/ DownloadLibrary
    \/ WhisperReturn
    \/ WhisperFail
    \/ GetSubtitles
    \/ ExternalCallHangs

UrlSpec == UrlInit /\ [][UrlNext]_vars

\* The method called, on an object as its constructor and its caller set it
\* up, for a video with some caption tracks, the id of the video being
\* extracted.  proxy_dict: the constructor of
\* YouTubeSubtitlesExtractor leaves the attribute unset ("unset"); a caller
\* that assigns it, as _prepare_proxy_dict is there for, makes it None
\* ("none") or a dictionary ("set").
AcqInit ==
    /\ SummarizeIdle
    /\ TranscriptionIdle
    /\ ParseIdle
    /\ BotIdle
    /\ HelpersIdle
    /\ youtube_url = WatchUrl
    /\ tracks \in [Languages -> TrackContents]
    /\ \/ /\ entry = "process_youtube_url"
          /\ proxy \in BOOLEAN
          /\ openai_api_key \in BOOLEAN
          /\ proxy_dict = "unset"
          /\ acq_pc = "api"
       \/ /\ entry = "_get_transcript"
          /\ proxy = FALSE
          /\ openai_api_key = FALSE
          /\ proxy_dict \in {"unset", "none", "set"}
          /\ acq_pc = "sync"
       \/ /\ entry = "get_subtitles"
          /\ proxy = FALSE
          /\ openai_api_key = FALSE
          /\ proxy_dict = "unset"
          /\ acq_pc = "get_subtitles"
    /\ attempt = 0
    /\ log = <<>>
    /\ acquired = NoText
    /\ acq_error = NoAcqError
    /\ disk = {}

AcqNext ==
    \/ ApiCaptions
    \/ ProxyCaptions
    \/ DownloadCli
    \/ DownloadLibrary
    \/ WhisperReturn
    \/ WhisperFail
    \/ SyncStart
    \/ SyncAttempt
    \/ YtdlpStart
    \/ YtdlpRun
    \/ GetSubtitles
    \/ ExternalCallHangs

AcqSpec == AcqInit /\ [][AcqNext]_vars

\* The remote-model stages of both halves: a run is a summarization or an
\* acquisition.
StagesInit == Init \/ AcqInit

StagesNext == Next \/ AcqNext

StagesSpec == StagesInit /\ [][StagesNext]_vars

\* ========================================================= the transcription
\* src/src/transcription.py: Transcription, WhisperTranscriber and
\* ClaudeTranscriber.  The size of the audio file is kept in bytes.
\*
\* if file_size_mb > 25, with file_size_mb = os.path.getsize(...) / (1024 * 1024)
WhisperLimitMB == 25
MiB == 1024 * 1024

\* The division by a power of two is exact, so the comparison of the quotient
\* with 25 is the comparison of the size with 25 * 1024 * 1024.
TooLarge(size) == size > WhisperLimitMB * MiB

\* Sizes on both sides of the limit, and at it.
AudioSizes ==
    {0, 1, WhisperLimitMB * MiB - 1, WhisperLimitMB * MiB,
     WhisperLimitMB * MiB + 1, 2 * WhisperLimitMB * MiB}

Audios == {NoAudio} \cup [exists : {TRUE}, size : AudioSizes]

\* A selection that looks at use_claude alone, whether or not a Claude key
\* was given.
SelectTranscriberByFlag(t) ==
    IF t.use_claude THEN "claude"
    ELSE IF t.openai_api_key THEN "whisper"
    ELSE "none"

\* Transcription.__init__: if use_claude and claude_api_key / elif
\* openai_api_key / else raise ValueError.
SelectTranscriber(t) ==
    IF t.use_claude /\ t.claude_api_key THEN "claude"
    ELSE IF t.openai_api_key THEN "whisper"
    ELSE "none"

TrInit ==
    /\ SummarizeIdle
    /\ AcquisitionIdle
    /\ ParseIdle
    /\ BotIdle
    /\ ExtraIdle
    /\ transcription \in [openai_api_key : BOOLEAN, claude_api_key : BOOLEAN,
                           use_claude : BOOLEAN, transcriber : {"none"}]
    /\ audio \in Audios
    /\ tr_pc = "init"
    /\ tr_error = "none"
    /\ tr_log = <<>>

\* raise Exception(f"...: {str(e)}") out of transcribe.
TrRaise ==
    /\ tr_pc' = "raised"
    /\ tr_error' = "Exception"

\* Transcription(openai_api_key, claude_api_key, use_claude)
TranscriptionConstruct ==
    /\ tr_pc = "init"
    /\ LET selected == SelectTranscriber(transcription)
       IN  IF selected = "none"
           THEN /\ tr_pc' = "raised"
                /\ tr_error' = "ValueError"
                /\ UNCHANGED transcription
           ELSE /\ transcription' = [transcription EXCEPT !.transcriber = selected]
                /\ tr_pc' = "transcribe"
                /\ UNCHANGED tr_error
    /\ UNCHANGED <<audio, tr_log>>
    /\ UNCHANGED <<sumVars, acqVars, parseVars, botVars, extraVars>>

\* transcribe_audio -> WhisperTranscriber.transcribe, up to the executor call:
\* the file must exist and must not be larger than 25 MB.
WhisperTranscribe ==
    /\ tr_pc = "transcribe"
    /\ transcription.transcriber = "whisper"
    /\ IF ~audio.exists \/ TooLarge(audio.size)
       THEN TrRaise
       ELSE tr_pc' = "executor" /\ UNCHANGED tr_error
    /\ UNCHANGED <<transcription, audio, tr_log>>
    /\ UNCHANGED <<sumVars, acqVars, parseVars, botVars, extraVars>>

\* transcribe_audio -> ClaudeTranscriber.transcribe, up to the executor call:
\* the file must exist; _get_file_info reads its size and passes it on.
ClaudeTranscribe ==
    /\ tr_pc = "transcribe"
    /\ transcription.transcriber = "claude"
    /\ IF ~audio.exists
       THEN TrRaise
       ELSE tr_pc' = "executor" /\ UNCHANGED tr_error
    /\ UNCHANGED <<transcription, audio, tr_log>>
    /\ UNCHANGED <<sumVars, acqVars, parseVars, botVars, extraVars>>

\* The request the executor thread sends for the file: _transcribe_sync
\* (openai.audio.transcriptions.create) or _generate_transcript
\* (claude_client.messages.create).
Request(service, file) ==
    [service |-> service, exists |-> file.exists, size |-> file.size]

\* The executor call: the request is sent; it returns the text or raises.
RemoteTranscription ==
    /\ tr_pc = "executor"
    /\ tr_log' = Append(tr_log, Request(transcription.transcriber, audio))
    /\ \E answered \in BOOLEAN :
         IF answered
         THEN tr_pc' = "returned" /\ UNCHANGED tr_error
         ELSE TrRaise
    /\ UNCHANGED <<transcription, audio>>
    /\ UNCHANGED <<sumVars, acqVars, parseVars, botVars, extraVars>>

TrNext ==
    \/ TranscriptionConstruct
    \/ WhisperTranscribe
    \/ ClaudeTranscribe
    \/ RemoteTranscription

TrSpec == TrInit /\ [][TrNext]_vars

\* ===================================================== _parse_subtitle_file
\* src/src/youtube_subtitles.py.  A line of the file is a sequence of symbols:
\* "sp" a whitespace character, "d" a digit, "w" any other character of a
\* word, "arrow" the characters -->, "webvtt" the characters WEBVTT.  Each
\* line of the file has a role in the subtitle format.
Symbols == {"sp", "d", "w", "arrow", "webvtt"}
Roles == {"header", "sequence", "cue", "blank", "spoken"}

LineTexts == SeqsUpTo(Symbols, MaxLineLen)

\* line.strip()
Strip(line) ==
    LET inked == {i \in DOMAIN line : line[i] # "sp"}
    IN  IF inked = {} THEN <<>>
        ELSE SubSeq(line, CHOOSE i \in inked : \A j \in inked : i <= j,
                          CHOOSE i \in inked : \A j \in inked : j <= i)

\* re.match(r'^\d+$', s)
AllDigits(s) == s # <<>> /\ \A i \in DOMAIN s : s[i] = "d"

\* The texts a line of each role can have: the header starts with WEBVTT, a
\* sequence number is digits, a timing cue has --> between times, a spoken
\* line is words, digits and spaces and is not blank.
CanBe(role, line) ==
    CASE role = "header" ->
           line # <<>> /\ line[1] = "webvtt" /\ \A i \in DOMAIN line : line[i] # "arrow"
      [] role = "sequence" -> AllDigits(Strip(line))
      [] role = "cue" ->
           /\ \E i \in DOMAIN line : line[i] = "arrow"
           /\ \A i \in DOMAIN line : line[i] \in {"arrow", "d", "sp"}
      [] role = "blank" -> Strip(line) = <<>>
      [] role = "spoken" ->
           /\ Strip(line) # <<>>
           /\ \A i \in DOMAIN line : line[i] \in {"sp", "d", "w"}

FileLines == {l \in [role : Roles, text : LineTexts] : CanBe(l.role, l.text)}

\* if '-->' in line or line.strip() == '' or line.startswith('WEBVTT') or
\* re.match(r'^\d+$', line.strip()): continue
Skipped(line) ==
    \/ \E i \in DOMAIN line : line[i] = "arrow"
    \/ Strip(line) = <<>>
    \/ line # <<>> /\ line[1] = "webvtt"
    \/ AllDigits(Strip(line))

\* ' '.join(lines)
RECURSIVE JoinSpace(_)
JoinSpace(lines) ==
    IF lines = <<>> THEN <<>>
    ELSE IF Len(lines) = 1 THEN lines[1]
    ELSE lines[1] \o <<"sp">> \o JoinSpace(Tail(lines))

\* The loop over content.split('\n') and the join.
ParseLines(texts) ==
    LET kept == SelectSeq(texts, LAMBDA line : ~Skipped(line))
    IN  JoinSpace([i \in 1..Len(kept) |-> Strip(kept[i])])

ParseInit ==
    /\ SummarizeIdle
    /\ AcquisitionIdle
    /\ TranscriptionIdle
    /\ BotIdle
    /\ ExtraIdle
    /\ subtitle_file \in SeqsUpTo(FileLines, MaxLines)
    /\ parsed = <<>>
    /\ parse_pc = "call"

\* _parse_subtitle_file(filepath): the file is read and parsed; when it cannot
\* be read the except returns "".
ParseSubtitleFile ==
    /\ parse_pc = "call"
    /\ \E readable \in BOOLEAN :
         IF readable
         THEN /\ parsed' = ParseLines([i \in 1..Len(subtitle_file) |->
                                          subtitle_file[i].text])
              /\ parse_pc' = "returned"
         ELSE /\ parsed' = <<>>
              /\ parse_pc' = "caught"
    /\ UNCHANGED subtitle_file
    /\ UNCHANGED <<sumVars, acqVars, trVars, botVars, extraVars>>

ParseNext == ParseSubtitleFile

ParseSpec == ParseInit /\ [][ParseNext]_vars

\* ================================================================== the bot
\* src/src/telegram_bot.py (TelegramBot) and src/src/main.py.
Users == 1..MaxUsers

\* if not self.authorized_user_ids or user_id in self.authorized_user_ids
\* with the test of the list turned around.
IsUserAuthorizedInverted(user) ==
    authorized_user_ids = {} \/ user \notin authorized_user_ids

\* _is_user_authorized: if not self.authorized_user_ids or user_id in
\* self.authorized_user_ids: return True
IsUserAuthorized(user) ==
    authorized_user_ids = {} \/ user \in authorized_user_ids

\* A reply: what it is and whether the text put into it is empty.
Reply(kind, body) == [kind |-> kind, body |-> body]

\* The replies a refused user gets: update.message.reply_text("...") is
\* called without await, so the coroutine is never run and nothing is sent.
Refusal == <<>>

\* What process_youtube_url does: it returns a dictionary whose transcription
\* has text or is empty, or it raises.
ProcessOutcomes == {"text", "empty", "raised"}

\* The dictionary process_youtube_url returns.
ResultDict(transcription_text) ==
    [key \in {"video_id", "transcription", "transcript_segments"} |->
        IF key = "transcription" THEN transcription_text ELSE "text"]

\* result.get(key, "")
Get(dict, key) == IF key \in DOMAIN dict THEN dict[key] ELSE "empty"

\* _send_video_summary: the summary, then the transcript, in parts when it is
\* longer than 4000 characters.
SummaryReplies(dict) ==
    LET summary == Get(dict, "summary")
        text == Get(dict, "transcript")
    IN  <<Reply("summary", summary)>> \o
        (IF text = "long_text"
         THEN <<Reply("transcript_part", "text"), Reply("transcript_part", "text")>>
         ELSE <<Reply("transcript", text)>>)

\* The reply_text calls of a handler are numbered from 1; the call number
\* broken raises (0: none does).  What is sent of replies when they are the
\* calls first, first + 1, ...
SendAll(replies, first, broken) ==
    LET hit == broken \in first..(first + Len(replies) - 1)
    IN  [sent |-> IF hit THEN SubSeq(replies, 1, broken - first) ELSE replies,
         raised |-> hit,
         next |-> IF hit THEN broken + 1 ELSE first + Len(replies)]

\* The body of a handler after its first reply: try: <work, which raises or
\* gives the replies to send> except Exception: reply_text(error).
TryThenReport(ack, work_raised, replies, broken) ==
    LET a == SendAll(<<ack>>, 1, broken)
        t == IF work_raised THEN [sent |-> <<>>, raised |-> TRUE, next |-> a.next]
             ELSE SendAll(replies, a.next, broken)
        e == SendAll(<<Reply("error", "text")>>, t.next, broken)
    IN  IF a.raised THEN [sent |-> a.sent, pc |-> "raised"]
        ELSE IF ~t.raised THEN [sent |-> a.sent \o t.sent, pc |-> "returned"]
        ELSE [sent |-> a.sent \o t.sent \o e.sent,
              pc |-> IF e.raised THEN "raised" ELSE "returned"]

\* The most reply_text calls a handler makes.
MaxReplies == 4

\* TelegramBot(config): the list of authorized users is read from the
\* configuration; is_running is not set.
BotInit ==
    /\ SummarizeIdle
    /\ AcquisitionIdle
    /\ TranscriptionIdle
    /\ ParseIdle
    /\ authorized_user_ids \in SUBSET Users
    /\ is_running = "unset"
    /\ start_pc = "construct"
    /\ stop_called = FALSE
    /\ shutdown_log = <<>>
    /\ update = NoUpdate
    /\ handler_pc = "idle"
    /\ handler_log = <<>>
    /\ sent = <<>>
    /\ temp_video = FALSE
    /\ ExtraIdle

\* The end of __init__: VideoProcessor(openai_api_key=...) and
\* YouTubeSubtitlesExtractor().  With the classes of src/src both calls lack
\* a required argument (temp_folder, api_key) and raise TypeError, which ends
\* main; the handlers and start are those of a bot whose collaborators accept
\* these calls.
Construct ==
    /\ start_pc = "construct"
    /\ \E collaborators \in {"as_written", "compatible"} :
         start_pc' = IF collaborators = "as_written" THEN "type_error"
                     ELSE "initialize"
    /\ UNCHANGED <<authorized_user_ids, is_running, stop_called, shutdown_log,
                   update, handler_pc, handler_log, sent, temp_video>>
    /\ UNCHANGED <<sumVars, acqVars, trVars, parseVars, extraVars>>

\* An awaited call of start returns, and start goes on at next, or it raises:
\* except Exception: raise.
Awaited(next) ==
    /\ \E ok \in BOOLEAN : start_pc' = IF ok THEN next ELSE "raised"
    /\ UNCHANGED <<authorized_user_ids, stop_called, update, handler_pc,
                   handler_log, sent, temp_video>>
    /\ UNCHANGED <<sumVars, acqVars, trVars, parseVars, extraVars>>

\* await application.initialize()
StartInitialize ==
    /\ start_pc = "initialize"
    /\ Awaited("app_start")
    /\ UNCHANGED <<is_running, shutdown_log>>

\* await application.start()
StartApplication ==
    /\ start_pc = "app_start"
    /\ Awaited("start_polling")
    /\ UNCHANGED <<is_running, shutdown_log>>

\* await application.updater.start_polling(); self.is_running = True: no
\* other coroutine runs between the return of the await and the assignment.
StartPolling ==
    /\ start_pc = "start_polling"
    /\ Awaited("loop")
    /\ is_running' = IF start_pc' = "loop" THEN "true" ELSE is_running
    /\ UNCHANGED shutdown_log

\* while self.is_running: await asyncio.sleep(1) -- the test fails.
LoopExit ==
    /\ start_pc = "loop"
    /\ is_running = "false"
    /\ start_pc' = "updater_stop"
    /\ UNCHANGED <<authorized_user_ids, is_running, stop_called, shutdown_log,
                   update, handler_pc, handler_log, sent, temp_video>>
    /\ UNCHANGED <<sumVars, acqVars, trVars, parseVars, extraVars>>

\* await application.updater.stop()
UpdaterStop ==
    /\ start_pc = "updater_stop"
    /\ shutdown_log' = Append(shutdown_log, "updater.stop")
    /\ Awaited("app_stop")
    /\ UNCHANGED is_running

\* await application.stop()
ApplicationStop ==
    /\ start_pc = "app_stop"
    /\ shutdown_log' = Append(shutdown_log, "application.stop")
    /\ Awaited("app_shutdown")
    /\ UNCHANGED is_running

\* await application.shutdown()
ApplicationShutdown ==
    /\ start_pc = "app_shutdown"
    /\ shutdown_log' = Append(shutdown_log, "application.shutdown")
    /\ Awaited("done")
    /\ UNCHANGED is_running

\* The points of start at which another coroutine can run: its awaits.
StartAwaits == {"initialize", "app_start", "start_polling", "loop",
                "updater_stop", "app_stop", "app_shutdown"}

\* stop(), run as the task the signal handler of main creates.
Stop ==
    /\ start_pc \in StartAwaits
    /\ is_running' = "false"
    /\ stop_called' = TRUE
    /\ UNCHANGED <<authorized_user_ids, start_pc, shutdown_log, update,
                   handler_pc, handler_log, sent, temp_video>>
    /\ UNCHANGED <<sumVars, acqVars, trVars, parseVars, extraVars>>

\* A handler is called for an update of user u while the updater polls.
Dispatched(u, kind) ==
    /\ start_pc = "loop"
    /\ update' = [user |-> u, kind |-> kind]
    /\ UNCHANGED <<authorized_user_ids, is_running, start_pc, stop_called,
                   shutdown_log>>
    /\ UNCHANGED <<sumVars, acqVars, trVars, parseVars, extraVars>>

\* if not self._is_user_authorized(update): return
Refused ==
    /\ sent' = Refusal
    /\ handler_pc' = "returned"
    /\ handler_log' = <<>>
    /\ UNCHANGED temp_video

\* A handler that sends one text.
Answered(kind, broken) ==
    LET r == SendAll(<<Reply(kind, "text")>>, 1, broken)
    IN  /\ sent' = r.sent
        /\ handler_pc' = IF r.raised THEN "raised" ELSE "returned"
        /\ handler_log' = <<>>
        /\ UNCHANGED temp_video

cmd_start ==
    \E u \in Users, broken \in 0..MaxReplies :
        /\ Dispatched(u, "cmd_start")
        /\ IF IsUserAuthorized(u) THEN Answered("welcome", broken) ELSE Refused

cmd_help ==
    \E u \in Users, broken \in 0..MaxReplies :
        /\ Dispatched(u, "cmd_help")
        /\ IF IsUserAuthorized(u) THEN Answered("help", broken) ELSE Refused

\* handle_message: a text without a YouTube link is left unanswered; for a
\* link, the first reply, process_youtube_url, _send_video_summary, and the
\* error reply of the except.
handle_message ==
    \E u \in Users, link \in BOOLEAN, outcome \in ProcessOutcomes,
       broken \in 0..MaxReplies :
        /\ Dispatched(u, IF link THEN "text_link" ELSE "text_other")
        /\ IF ~IsUserAuthorized(u) THEN Refused
           ELSE IF ~link
           THEN /\ sent' = <<>>
                /\ handler_pc' = "returned"
                /\ handler_log' = <<>>
                /\ UNCHANGED temp_video
           ELSE LET r == TryThenReport(Reply("ack", "text"), outcome = "raised",
                                       SummaryReplies(ResultDict(outcome)),
                                       broken)
                IN  /\ sent' = r.sent
                    /\ handler_pc' = r.pc
                    /\ handler_log' = IF broken = 1 THEN <<>>
                                      ELSE <<"process_youtube_url">>
                    /\ UNCHANGED temp_video

\* handle_video and handle_video_document: the first reply, get_file, the
\* temporary file, download_to_drive, then
\* self.video_processor.process_video_file, a method VideoProcessor does not
\* have: the AttributeError goes to the except, which sends the error reply;
\* os.remove(video_path) is not reached.
HandleVideoFile(u, fetched, broken) ==
    IF ~IsUserAuthorized(u) THEN Refused
    ELSE LET r == TryThenReport(Reply("ack", "text"), TRUE, <<>>, broken)
             downloaded == broken # 1 /\ fetched
         IN  /\ sent' = r.sent
             /\ handler_pc' = r.pc
             /\ handler_log' = IF broken = 1 THEN <<>>
                               ELSE IF fetched THEN <<"get_file", "download_to_drive">>
                               ELSE <<"get_file">>
             /\ temp_video' = (temp_video \/ downloaded)

handle_video ==
    \E u \in Users, fetched \in BOOLEAN, broken \in 0..MaxReplies :
        /\ Dispatched(u, "video")
        /\ HandleVideoFile(u, fetched, broken)

handle_video_document ==
    \E u \in Users, fetched \in BOOLEAN, broken \in 0..MaxReplies :
        /\ Dispatched(u, "video_document")
        /\ HandleVideoFile(u, fetched, broken)

BotNext ==
    \/ Construct
    \/ StartInitialize
    \/ StartApplication
    \/ StartPolling
    \/ LoopExit
    \/ UpdaterStop
    \/ ApplicationStop
    \/ ApplicationShutdown
    \/ Stop
    \/ cmd_start
    \/ cmd_help
    \/ handle_message
    \/ handle_video
    \/ handle_video_document

BotSpec == BotInit /\ [][BotNext]_vars

\* ====================================================== cleanup_temp_folder
\* src/src/download_manager.py.  Times are in seconds.  st_mtime is on the
\* wall clock (seconds since 1970); current_time is
\* asyncio.get_event_loop().time(), the monotonic clock, whose reference
\* point the library leaves undefined: on the usual builds it counts from the
\* start of the machine, and the model also lets it agree with the wall clock.
SecondsPerHour == 3600
DefaultMaxAgeHours == 24
WallNow == 1700000000
Uptime == 90000

Clocks == [wall : {WallNow}, loop : {Uptime, WallNow}]

\* The ages of the entries: new, at and just past one hour, just past the
\* default limit, and an entry whose modification time is 0.
Ages == {0, SecondsPerHour, SecondsPerHour + 1,
         DefaultMaxAgeHours * SecondsPerHour + 1, WallNow}

Entries == [name : 1..MaxFiles, is_file : BOOLEAN,
            mtime : {WallNow - a : a \in Ages}]

\* A folder has at most one entry of a name.
Folders ==
    LET Absent == [name |-> 0, is_file |-> FALSE, mtime |-> 0]
        picks == [1..MaxFiles -> {Absent} \cup [is_file : BOOLEAN,
                                                 mtime : {WallNow - a : a \in Ages}]]
    IN  {{[name |-> n, is_file |-> pick[n].is_file, mtime |-> pick[n].mtime] :
            n \in {m \in 1..MaxFiles : pick[m] # Absent}} : pick \in picks}

\* file_age_hours = (current_time - file_modified_time) / 3600;
\* if file_age_hours > max_age_hours
TooOld(current_time, entry_mtime, limit_hours) ==
    current_time - entry_mtime > SecondsPerHour * limit_hours

CleanupInit ==
    /\ SummarizeIdle
    /\ AcquisitionIdle
    /\ TranscriptionIdle
    /\ ParseIdle
    /\ BotIdle
    /\ SendIdle
    /\ PostIdle
    /\ youtube_url = NoUrl
    /\ temp_folder \in Folders
    /\ clock \in Clocks
    /\ max_age_hours \in {1, DefaultMaxAgeHours}
    /\ visited = {}
    /\ unlinked = {}
    /\ cleanup_pc = "loop"

\* One iteration of "for filepath in Path(self.temp_folder).glob('*')", in
\* whatever order glob yields the entries.  stat() or unlink() of a regular
\* file may raise OSError, which the except clause of the method logs: the
\* loop is left and the method returns.
CleanupVisit ==
    /\ cleanup_pc = "loop"
    /\ \E filepath \in temp_folder \ visited :
       \E os_error \in BOOLEAN :
         /\ visited' = visited \cup {filepath}
         /\ IF ~filepath.is_file
            THEN /\ ~os_error
                 /\ UNCHANGED <<temp_folder, unlinked, cleanup_pc>>
            ELSE IF os_error
            THEN /\ cleanup_pc' = "returned"
                 /\ UNCHANGED <<temp_folder, unlinked>>
            ELSE IF TooOld(clock.loop, filepath.mtime, max_age_hours)
            THEN /\ temp_folder' = temp_folder \ {filepath}
                 /\ unlinked' = unlinked \cup {filepath}
                 /\ UNCHANGED cleanup_pc
            ELSE UNCHANGED <<temp_folder, unlinked, cleanup_pc>>
    /\ UNCHANGED <<clock, max_age_hours>>
    /\ UNCHANGED <<sumVars, acqVars, trVars, parseVars, botVars, sendVars, cgVars, youtube_url>>

\* The loop is through: the method returns None.
CleanupReturn ==
    /\ cleanup_pc = "loop"
    /\ temp_folder \ visited = {}
    /\ cleanup_pc' = "returned"
    /\ UNCHANGED <<temp_folder, clock, max_age_hours, visited, unlinked>>
    /\ UNCHANGED <<sumVars, acqVars, trVars, parseVars, botVars, sendVars, cgVars, youtube_url>>

CleanupNext ==
    \/ CleanupVisit
    \/ CleanupReturn

CleanupSpec == CleanupInit /\ [][CleanupNext]_vars

\* ====================================================== _send_video_summary
\* src/src/telegram_bot.py.  A text is the sequence of its characters; the
\* characters of a transcript are told apart by their position in it.
PartLimit == 4000

TextOfLen(n) == [i \in 1..n |-> i]

\* Lengths on both sides of every multiple of 4000 up to MaxParts parts, and
\* one character more.
TranscriptLengths ==
    {0, 1} \cup UNION {{k * PartLimit - 1, k * PartLimit, k * PartLimit + 1} :
                         k \in 1..MaxParts}

\* The dictionaries handed over: with both keys, without "transcript", and
\* the one without any key.
SendResults ==
    [summary : {TextOfLen(0), TextOfLen(1)},
     transcript : {TextOfLen(n) : n \in TranscriptLengths}]
    \cup [summary : {TextOfLen(0), TextOfLen(1)}]
    \cup {<<>>}

\* result.get(key, "")
GetOr(dict, key, default) == IF key \in DOMAIN dict THEN dict[key] ELSE default

Min(a, b) == IF a <= b THEN a ELSE b

\* A variant of TranscriptParts that cuts at the same places and leaves out
\* the last character of a full part.
RECURSIVE TranscriptPartsShort(_, _)
TranscriptPartsShort(text, i) ==
    IF i >= Len(text) THEN <<>>
    ELSE <<SubSeq(text, i + 1, Min(i + PartLimit - 1, Len(text)))>>
         \o TranscriptPartsShort(text, i + PartLimit)

\* [transcript[i:i+4000] for i in range(0, len(transcript), 4000)], from i on.
RECURSIVE TranscriptParts(_, _)
TranscriptParts(text, i) ==
    IF i >= Len(text) THEN <<>>
    ELSE <<SubSeq(text, i + 1, Min(i + PartLimit, Len(text)))>>
         \o TranscriptParts(text, i + PartLimit)

\* update.message.reply_text(f"...{body}"): the heading and what it carries.
Message(kind, index, total, body) ==
    [kind |-> kind, index |-> index, total |-> total, body |-> body]

\* The reply_text calls of _send_video_summary, in the order of the code.
SummaryMessages(dict) ==
    LET summary == GetOr(dict, "summary", <<>>)
        text == GetOr(dict, "transcript", <<>>)
        parts == TranscriptParts(text, 0)
    IN  <<Message("summary", 0, 0, summary)>> \o
        (IF Len(text) > PartLimit
         THEN [i \in 1..Len(parts) |->
                   Message("transcript_part", i, Len(parts), parts[i])]
         ELSE <<Message("transcript", 0, 0, text)>>)

SendInit ==
    /\ SummarizeIdle
    /\ AcquisitionIdle
    /\ TranscriptionIdle
    /\ ParseIdle
    /\ BotIdle
    /\ CleanupIdle
    /\ PostIdle
    /\ youtube_url = NoUrl
    /\ send_result \in SendResults
    /\ send_pc = "sending"
    /\ outbox = <<>>

\* The next await update.message.reply_text(...): the message is sent, or the
\* call raises and the exception leaves _send_video_summary.
ReplyText ==
    /\ send_pc = "sending"
    /\ Len(outbox) < Len(SummaryMessages(send_result))
    /\ \E delivered \in BOOLEAN :
         IF delivered
         THEN /\ outbox' = Append(outbox,
                                  SummaryMessages(send_result)[Len(outbox) + 1])
              /\ UNCHANGED send_pc
         ELSE /\ send_pc' = "raised"
              /\ UNCHANGED outbox
    /\ UNCHANGED send_result
    /\ UNCHANGED <<sumVars, acqVars, trVars, parseVars, botVars, dmVars, cgVars, youtube_url>>

\* Every reply was sent: _send_video_summary returns.
SendReturn ==
    /\ send_pc = "sending"
    /\ Len(outbox) = Len(SummaryMessages(send_result))
    /\ send_pc' = "returned"
    /\ UNCHANGED <<send_result, outbox>>
    /\ UNCHANGED <<sumVars, acqVars, trVars, parseVars, botVars, dmVars, cgVars, youtube_url>>

SendNext ==
    \/ ReplyText
    \/ SendReturn

SendSpec == SendInit /\ [][SendNext]_vars

\* ============================================================ generate_post
\* src/src/content_generator.py.  The transcription is the sequence of its
\* characters, told apart by their position.
\*
\* max_tokens = 12000; if len(transcription) > max_tokens:
\*     transcription = transcription[:16000] + "...[... был обрезан ...]"
PostMaxTokens == 12000
PostKeptChars == 16000

PostLengths ==
    {0, 1, PostMaxTokens - 1, PostMaxTokens, PostMaxTokens + 1,
     PostKeptChars - 1, PostKeptChars, PostKeptChars + 1, 2 * PostKeptChars}

\* What is put after the heading of the user message: the characters kept of
\* the transcription, and whether the marker follows them.
Prepared(text) ==
    IF Len(text) > PostMaxTokens
    THEN [text |-> SubSeq(text, 1, Min(PostKeptChars, Len(text))), marker |-> TRUE]
    ELSE [text |-> text, marker |-> FALSE]

\* if use_claude and self.claude_client: ... else: openai
PostService(input) ==
    IF input.use_claude /\ input.claude_client THEN "claude" ELSE "openai"

PostInit ==
    /\ SummarizeIdle
    /\ AcquisitionIdle
    /\ TranscriptionIdle
    /\ ParseIdle
    /\ BotIdle
    /\ CleanupIdle
    /\ SendIdle
    /\ youtube_url = NoUrl
    /\ post_input \in [text : {TextOfLen(n) : n \in PostLengths},
                        use_claude : BOOLEAN, claude_client : BOOLEAN]
    /\ post_pc = "called"
    /\ post_request = NoRequest

\* generate_post: await loop.run_in_executor(None, lambda: ...)
GeneratePost ==
    /\ post_pc = "called"
    /\ post_pc' = "executor"
    /\ UNCHANGED <<post_input, post_request>>
    /\ UNCHANGED <<sumVars, acqVars, trVars, parseVars, botVars, dmVars, sendVars, youtube_url>>

\* _generate_post_sync in the executor thread: the transcription is prepared
\* and the request is sent to the service selected.
GeneratePostSync ==
    /\ post_pc = "executor"
    /\ LET prepared == Prepared(post_input.text)
       IN  post_request' = [service |-> PostService(post_input),
                            text |-> prepared.text,
                            marker |-> prepared.marker]
    /\ post_pc' = "requested"
    /\ UNCHANGED post_input
    /\ UNCHANGED <<sumVars, acqVars, trVars, parseVars, botVars, dmVars, sendVars, youtube_url>>

\* The service answers: generate_post returns the post.
PostReturn ==
    /\ post_pc = "requested"
    /\ post_pc' = "returned"
    /\ UNCHANGED <<post_input, post_request>>
    /\ UNCHANGED <<sumVars, acqVars, trVars, parseVars, botVars, dmVars, sendVars, youtube_url>>

\* The request raises: generate_post wraps the exception and raises.
PostFail ==
    /\ post_pc = "requested"
    /\ post_pc' = "raised"
    /\ UNCHANGED <<post_input, post_request>>
    /\ UNCHANGED <<sumVars, acqVars, trVars, parseVars, botVars, dmVars, sendVars, youtube_url>>

PostNext ==
    \/ GeneratePost
    \/ GeneratePostSync
    \/ PostReturn
    \/ PostFail

PostSpec == PostInit /\ [][PostNext]_vars

\* ======================================================= claims: summarize
\* The estimate of the transcript, written out as the code computes it.
TranscriptBelowThreshold ==
    TokenRatio10 * SumWords(transcript) < 10 * DirectThreshold

\* C1: a transcript whose estimate (words x 1.3) is below 8000 is summarized
\* by exactly one remote call, the direct one: the splitter, the chunk
\* tasks and the reduce call are never invoked.
C1_ShortIsOneDirectCall ==
    TranscriptBelowThreshold =>
        /\ calls.split = 0
        /\ calls.map = <<>>
        /\ tasks = <<>>
        /\ calls.reduce = 0
        /\ calls.direct = (IF pc = "start" THEN 0 ELSE 1)

C1_Witness ==
    /\ TranscriptBelowThreshold
    /\ TokenRatio10 * SumWords(transcript) > 10 * DefaultMaxTokens
    /\ Len(SplitSentences(transcript)) >= 2
    /\ pc = "returned"
    /\ result = DirectReply(transcript)

\* C2: a transcript whose estimate is not below the threshold is split once,
\* gets one map call per chunk and at most one reduce call whatever the
\* number of chunks; the reduce call is issued only when every map call has
\* returned, and what summarize returns is the reduce call's reply.
C2_LongIsSplitMapReduce ==
    ~TranscriptBelowThreshold =>
        /\ calls.direct = 0
        /\ pc # "start" =>
              /\ calls.split = 1
              /\ Len(chunks) >= 1
              /\ Len(tasks) = Len(chunks)
              /\ calls.map = [k \in 1..Len(chunks) |-> 1]
        /\ calls.reduce = (IF pc \in {"reduce", "returned"} \/
                              (pc = "failed" /\ error.call = "reduce")
                           THEN 1 ELSE 0)
        /\ calls.reduce = 1 => \A k \in 1..Len(tasks) : tasks[k].state = "done"
        /\ pc = "returned" => result.by = "reduce" /\ result.of = reduce_input

C2_Witness ==
    /\ ~TranscriptBelowThreshold
    /\ Len(chunks) >= 3
    /\ pc = "returned"
    /\ calls.reduce = 1

\* C9: whatever the completion order of the chunk tasks, the text handed to
\* the reduce call lists the summaries in ascending chunk index, the summary
\* of chunk k (counted from 1) under part marker k.
C9_ReduceInputInChunkOrder ==
    calls.reduce = 1 =>
        /\ Len(reduce_input) = Len(chunks)
        /\ \A k \in 1..Len(reduce_input) :
              /\ reduce_input[k].part = k
              /\ reduce_input[k].summary.by = "chunk"
              /\ reduce_input[k].summary.of = k

C9_Witness ==
    /\ calls.reduce = 1
    /\ Len(completed) >= 3
    /\ completed[1] > completed[2]
    /\ completed[Len(completed)] = 1

\* C10 as stated: when a chunk's summarization fails, summarize fails with a
\* ChunkBatchFailure wrapping the first chunk failure, no reduce call is
\* issued and nothing is returned.
C10_AsStated ==
    (pc = "failed" /\ FailedIn(tasks, completed) # {}) =>
        /\ error.type = "ChunkBatchFailure"
        /\ error.call = "chunk"
        /\ calls.reduce = 0
        /\ result = NoValue

\* C10 amended: once a chunk's summarization has failed, no reduce call is
\* ever issued and nothing is returned; summarize fails with the generic
\* Exception whose message embeds the failure of the chunk that failed first
\* (in completion order), the summaries of the other chunks being dropped.
C10_FailFast ==
    FailedIn(tasks, completed) # {} =>
        /\ calls.reduce = 0
        /\ reduce_input = <<>>
        /\ result = NoValue
        /\ pc \in {"map", "failed"}
        /\ pc = "failed" =>
              /\ error.type = "Exception"
              /\ error.call = "chunk"
              /\ \E k \in 1..Len(completed) :
                    /\ completed[k] = error.index
                    /\ tasks[completed[k]].state = "failed"
                    /\ \A j \in 1..(k - 1) : tasks[completed[j]].state = "done"

C10_Witness ==
    /\ pc = "failed"
    /\ Cardinality(FailedIn(tasks, completed)) >= 2
    /\ tasks[completed[1]].state = "done"
    /\ error.index = 2

\* ============================================= claims: _split_into_chunks
SplitReturned == pc = "split_returned"

Sentences == SplitSentences(transcript)

\* The sentences of a chunk behind its seeded overlap prefix.
NonOverlap(chunk) == SubSeq(chunk.sentences, chunk.seeded + 1, Len(chunk.sentences))

Oversized(sentence) == TokenRatio10 * sentence.words > 10 * max_tokens

\* C3: the chunks, each without its seeded overlap prefix, concatenated in
\* chunk order, are the sentence sequence of the text: every sentence once,
\* in its place.
C3_ChunksReconstructText ==
    SplitReturned =>
        Flatten([k \in 1..Len(chunks) |-> NonOverlap(chunks[k])]) = Sentences

C3_Witness ==
    /\ SplitReturned
    /\ Len(chunks) >= 3
    /\ \E k \in 1..Len(chunks) : chunks[k].seeded >= 1
    /\ \E k \in 1..Len(chunks) : Len(NonOverlap(chunks[k])) >= 2

\* C4 as stated, on the inputs where its one exception cannot apply (no
\* sentence is itself larger than max_tokens) and the overlap is smaller than
\* a chunk, as with the defaults 3000 and 200: every returned chunk is
\* estimated (overlap prefix included) at no more than max_tokens, unless it
\* is one single sentence that is itself larger than max_tokens.
C4_ChunkWithinMaxTokens ==
    (/\ SplitReturned
     /\ overlap < max_tokens
     /\ \A i \in 1..Len(Sentences) : ~Oversized(Sentences[i])) =>
        \A k \in 1..Len(chunks) :
            \/ ChunkEstimate10(chunks[k]) <= 10 * max_tokens
            \/ /\ Len(chunks[k].sentences) = 1
               /\ Oversized(chunks[k].sentences[1])

\* C5 as stated: a text whose estimate T exceeds max_tokens yields at least
\* ceil(T / max_tokens) chunks.
C5_AsStated ==
    (SplitReturned /\ TokenRatio10 * SumWords(transcript) > 10 * max_tokens) =>
        Len(chunks) * 10 * max_tokens >= TokenRatio10 * SumWords(transcript)

\* C5 amended: a text whose estimate T exceeds max_tokens and none of whose
\* sentences is itself estimated above max_tokens yields at least
\* ceil(T / max_tokens) chunks.
C5_EnoughChunks ==
    (/\ SplitReturned
     /\ TokenRatio10 * SumWords(transcript) > 10 * max_tokens
     /\ \A i \in 1..Len(Sentences) : ~Oversized(Sentences[i])) =>
        Len(chunks) * 10 * max_tokens >= TokenRatio10 * SumWords(transcript)

C5_Witness ==
    /\ SplitReturned
    /\ TokenRatio10 * SumWords(transcript) > 2 * 10 * max_tokens
    /\ \A i \in 1..Len(Sentences) : ~Oversized(Sentences[i])
    /\ \E k \in 1..Len(chunks) : chunks[k].seeded >= 1
    /\ \E k \in 1..Len(chunks) : Len(NonOverlap(chunks[k])) >= 2

\* C6: the overlap prefix of every chunk after the first is the longest run
\* of trailing sentences of the chunk before it whose estimates sum to at
\* most overlap tokens, in their order.
C6_OverlapIsLongestFittingTail ==
    SplitReturned =>
        \A k \in 2..Len(chunks) :
            LET prev == chunks[k - 1].sentences
                n    == chunks[k].seeded
            IN  /\ n <= Len(prev)
                /\ n < Len(chunks[k].sentences)
                /\ SubSeq(chunks[k].sentences, 1, n) = LastN(prev, n)
                /\ TokenRatio10 * SumWords(LastN(prev, n)) <= 10 * overlap
                /\ n < Len(prev) =>
                      TokenRatio10 * SumWords(LastN(prev, n + 1)) > 10 * overlap

C6_Witness ==
    /\ SplitReturned
    /\ \E k \in 2..Len(chunks) :
          /\ chunks[k].seeded >= 2
          /\ chunks[k].seeded < Len(chunks[k - 1].sentences)

\* C7 as stated, with the overlap smaller than a chunk, as with the defaults
\* 3000 and 200: a sentence estimated above max_tokens is a non-overlap
\* sentence of exactly one chunk, and that chunk holds no other sentence.
C7_OversizedSentenceAlone ==
    (SplitReturned /\ overlap < max_tokens) =>
        \A i \in 1..Len(Sentences) :
            Oversized(Sentences[i]) =>
                /\ Cardinality({k \in 1..Len(chunks) :
                       \E j \in 1..Len(NonOverlap(chunks[k])) :
                           NonOverlap(chunks[k])[j] = Sentences[i]}) = 1
                /\ \A k \in 1..Len(chunks) :
                       (\E j \in 1..Len(chunks[k].sentences) :
                            chunks[k].sentences[j] = Sentences[i])
                       => chunks[k].sentences = <<Sentences[i]>>

\* ===================================================== claims: remote calls
\* The attempts of a strategy in the log.
AttemptsOf(strategy) ==
    {k \in 1..Len(log) : log[k].kind = "attempt" /\ log[k].strategy = strategy}

\* C11 as stated: a failed chat-completion or speech-to-text call is retried,
\* so a stage that failed has issued its call more than once.
C11_AsStated ==
    /\ pc = "failed" /\ error.call = "direct" => calls.direct > 1
    /\ pc = "failed" /\ error.call = "chunk" => calls.map[error.index] > 1
    /\ pc = "failed" /\ error.call = "reduce" => calls.reduce > 1
    /\ acq_pc = "raised" /\ acq_error.at = "whisper"
           => Cardinality(AttemptsOf("whisper")) > 1

\* C11 amended: no chat-completion or speech-to-text call is issued a second
\* time, and the first failure of a call fails its stage: a chunk whose call
\* failed keeps the summarization from reaching the reduce stage or returning,
\* and a failed direct, reduce or speech-to-text call is the failure of
\* summarize or of the acquisition.
C11_NoRetry ==
    /\ calls.direct <= 1
    /\ calls.reduce <= 1
    /\ \A i \in 1..Len(calls.map) : calls.map[i] <= 1
    /\ Cardinality(AttemptsOf("whisper")) <= 1
    /\ (\E i \in 1..Len(tasks) : tasks[i].state = "failed")
           => pc \in {"map", "failed"}
    /\ pc = "failed" => /\ error.call \in {"direct", "chunk", "reduce"}
                        /\ result = NoValue
    /\ (\E k \in AttemptsOf("whisper") : log[k].outcome = "failed")
           => acq_pc = "raised" /\ acq_error.at = "whisper"

C11_Witness ==
    /\ pc = "failed"
    /\ error.call = "chunk"
    /\ calls.map[error.index] = 1
    /\ \E i \in 1..Len(tasks) : tasks[i].state = "done"

\* ================================================== claims: the acquisition
\* The positions of the attempts in the log.
Attempts == {k \in 1..Len(log) : log[k].kind = "attempt"}

\* The priority the claim gives a strategy: native captions, proxied captions,
\* subtitle-file download, audio download plus speech-to-text.
StatedRank(strategy) ==
    CASE strategy \in {"api", "sync_direct", "get_subtitles"} -> 1
      [] strategy \in {"proxy", "sync_proxy"} -> 2
      [] strategy \in {"ytdlp_proxy", "ytdlp_direct"} -> 3
      [] strategy \in {"cli_download", "lib_download", "whisper"} -> 4

\* The place of a strategy in the chain of the method that was called.
ChainRank(strategy) ==
    CASE strategy \in {"api", "sync_proxy", "get_subtitles"} -> 1
      [] strategy \in {"proxy", "sync_direct"} -> 2
      [] strategy \in {"cli_download", "lib_download", "whisper", "ytdlp_proxy"} -> 3
      [] strategy = "ytdlp_direct" -> 4

C13_StopsAtFirstTranscript ==
    /\ \A k \in Attempts :
         (\/ log[k].outcome = "text"
          \/ entry = "process_youtube_url" /\ log[k].outcome = "empty")
         => /\ k = Len(log)
            /\ acq_pc = "returned"
            /\ acquired.strategy = log[k].strategy
            /\ acquired.lang = log[k].lang
            /\ acquired.content = log[k].outcome
    /\ acq_pc = "returned" /\ acquired.content = "text"
         => log # <<>> /\ log[Len(log)].outcome = "text"

C13_Witness ==
    /\ acq_pc = "returned"
    /\ acquired.strategy = "sync_direct"
    /\ acquired.content = "text"
    /\ \E k \in Attempts : log[k].strategy = "sync_proxy" /\ log[k].outcome = "failed"

\* C14: what process_youtube_url returns is never the empty string, and no
\* method returns as its transcript the empty result of a strategy: such an
\* attempt counts as failed and the chain goes on.
C14_NeverEmpty ==
    /\ entry = "process_youtube_url" /\ acq_pc = "returned"
         => acquired.content = "text"
    /\ \A k \in Attempts :
         log[k].outcome = "empty"
             => ~(acq_pc = "returned" /\ acquired.strategy = log[k].strategy)

\* The call has come back to its caller.
AcqDone == acq_pc \in {"returned", "raised"}

\* No attempt of the run obtained anything, empty or not.
EveryAttemptFailed ==
    \A k \in Attempts : log[k].outcome \notin {"text", "empty"}

ProxyConfigured ==
    \/ entry = "process_youtube_url" /\ proxy
    \/ entry = "_get_transcript" /\ proxy_dict = "set"

\* C17: only a run with a proxy configured makes an attempt through a proxy,
\* and a run of _get_transcript without one has made its no-proxy caption
\* attempts when it comes back.
C17_ProxyOnlyIfConfigured ==
    /\ \A k \in Attempts : log[k].proxied => ProxyConfigured
    /\ entry = "_get_transcript" /\ ~ProxyConfigured /\ AcqDone
         => \E k \in Attempts : log[k].strategy = "sync_direct"

\* The strategy has an attempt in the log.
Tried(strategy) == \E k \in Attempts : log[k].strategy = strategy

\* The run came back without a transcript: an exception, or the empty string
\* of the extractor.
AcqFailed ==
    \/ acq_pc = "raised"
    \/ acq_pc = "returned" /\ acquired = EmptyString

\* C16: a run reports failure only after every strategy of its chain that
\* its configuration allows has been attempted: no error inside a strategy
\* comes back to the caller while a later strategy is untried.
C16_FailureOnlyAfterAll ==
    /\ entry = "process_youtube_url" /\ AcqFailed
         => /\ Tried("api")
            /\ proxy => Tried("proxy")
            /\ openai_api_key => Tried("cli_download")
    /\ entry = "_get_transcript" /\ AcqFailed
         => /\ proxy_dict = "set" => Tried("sync_proxy") /\ Tried("ytdlp_proxy")
            /\ Tried("sync_direct")
            /\ Tried("ytdlp_direct")
    /\ entry = "get_subtitles" /\ AcqFailed => Tried("get_subtitles")

\* The caption attempts of a loop of _get_transcript_sync.
SyncPhases == {"sync_proxy", "sync_direct"}
SyncAttempts(phase) == {k \in Attempts : log[k].strategy = phase}

\* C18: each loop of _get_transcript_sync makes at most max_attempts attempts;
\* two consecutive attempts of a loop are separated by one sleep of
\* retry_delay seconds, which follows a failed attempt; no sleep follows the
\* last attempt of a loop; no attempt of either loop follows one that
\* succeeded; the no-proxy loop starts only when there is no proxy or after
\* max_attempts failed proxied attempts.
C18_RetryPhases ==
    /\ \A phase \in SyncPhases : Cardinality(SyncAttempts(phase)) <= max_attempts
    /\ \A k \in 1..Len(log) :
         log[k].kind = "sleep"
             => /\ log[k].delay = retry_delay
                /\ k > 1
                /\ log[k-1].kind = "attempt"
                /\ log[k-1].strategy \in SyncPhases
                /\ log[k-1].outcome = "failed"
                /\ Cardinality({j \in SyncAttempts(log[k-1].strategy) : j < k})
                       < max_attempts
                /\ k < Len(log)
                       => /\ log[k+1].kind = "attempt"
                          /\ log[k+1].strategy = log[k-1].strategy
    /\ \A k \in 1..Len(log) - 1 :
         (/\ log[k].kind = "attempt"
          /\ log[k].strategy \in SyncPhases
          /\ log[k+1].kind = "attempt")
         => log[k+1].strategy # log[k].strategy
    /\ \A phase \in SyncPhases : \A k \in SyncAttempts(phase) :
         log[k].outcome # "failed"
             => \A j \in Attempts : j > k => log[j].strategy \notin SyncPhases
    /\ \A k \in SyncAttempts("sync_direct") :
         \/ proxy_dict = "none"
         \/ Cardinality({j \in SyncAttempts("sync_proxy") :
                            j < k /\ log[j].outcome = "failed"}) = max_attempts

C18_Witness ==
    /\ acq_pc = "returned"
    /\ acquired.strategy = "sync_direct"
    /\ Cardinality(SyncAttempts("sync_proxy")) = max_attempts
    /\ Cardinality(SyncAttempts("sync_direct")) = max_attempts
    /\ Cardinality({k \in 1..Len(log) : log[k].kind = "sleep"}) = 4

\* The attempts that are caption queries.
CaptionQueries ==
    {k \in Attempts : log[k].strategy \in {"api", "proxy", "sync_proxy",
                                           "sync_direct", "get_subtitles"}}
Exists(lang) == tracks[lang] # "absent"

\* C19 as stated: a caption query none of whose requests failed uses the ru
\* track when it exists, else the en track, else the track there is, and
\* fails only when the video has no track.
C19_AsStated ==
    \A k \in CaptionQueries :
        log[k].faults = {} /\ log[k].outcome # "hung" =>
            /\ Exists("ru") => log[k].lang = "ru"
            /\ ~Exists("ru") /\ Exists("en") => log[k].lang = "en"
            /\ ~Exists("ru") /\ ~Exists("en") /\ Exists("other")
                   => log[k].lang = "other"

\* C19 amended: a caption query reads the ru track when it exists, else the
\* en track, and fails when neither exists, whatever other track the video
\* has; it never reads another language.  Only _get_subtitles_via_api reads
\* the en track of a video that has a ru track, after its list or its ru
\* request failed.
C19_RuThenEnElseFail ==
    \A k \in CaptionQueries :
        /\ log[k].outcome \in {"text", "empty"}
               => log[k].lang \in {"ru", "en"} /\ Exists(log[k].lang)
        /\ log[k].lang = "en" /\ Exists("ru")
               => log[k].strategy = "api" /\ log[k].faults \cap {"list", "ru"} # {}
        /\ log[k].faults = {} /\ log[k].outcome # "hung" =>
               /\ Exists("ru") => log[k].lang = "ru"
               /\ ~Exists("ru") /\ Exists("en") => log[k].lang = "en"
        /\ ~Exists("ru") /\ ~Exists("en") /\ log[k].outcome # "hung"
               => log[k].outcome = "failed"

C19_Witness ==
    /\ ~Exists("ru") /\ ~Exists("en") /\ tracks["other"] = "text"
    /\ \E k \in CaptionQueries :
         /\ log[k].strategy = "api"
         /\ log[k].faults = {}
         /\ log[k].outcome = "failed"

\* C20: the acquisition is never blocked: as long as the call has not come
\* back to its caller, a step of it can be taken, also after an external call
\* stopped answering.
C20_NeverBlocked == AcqDone \/ ENABLED AcqNext

\* What follows the log entry k: the strategy of the next entry, or where the
\* acquisition is when k is the last entry.
FollowedBy(k, strategy) ==
    IF k < Len(log) THEN log[k + 1].strategy = strategy ELSE acq_pc = strategy

ExitStatusFailures == {k \in DOMAIN log : "exit" \in log[k].faults}

\* C23: a run of the external downloader that ended with a non-zero exit
\* status fails that attempt only: after the CLI audio download the library
\* download is next, after the proxied subtitle run the no-proxy run is next,
\* and the acquisition never ends by raising at such a run.
C23_ExitStatusFailsAttemptOnly ==
    \A k \in ExitStatusFailures :
        /\ log[k].outcome = "failed"
        /\ log[k].strategy = "cli_download" => FollowedBy(k, "lib_download")
        /\ log[k].strategy = "ytdlp_proxy" => FollowedBy(k, "ytdlp_direct")
        /\ k = Len(log) => acq_pc # "raised"

\* Both downloaders exited with a non-zero status and the run went on: the
\* library download after the CLI one ended well, the no-proxy subtitle run
\* after the proxied one returned a transcript.
C23_Witness ==
    \/ \E k \in ExitStatusFailures :
          /\ log[k].strategy = "cli_download"
          /\ k < Len(log)
          /\ log[k + 1].strategy = "lib_download" /\ log[k + 1].outcome = "ok"
          /\ acq_pc = "returned"
    \/ \E k \in ExitStatusFailures :
          /\ log[k].strategy = "ytdlp_proxy"
          /\ k < Len(log)
          /\ log[k + 1].strategy = "ytdlp_direct" /\ log[k + 1].outcome = "text"

\* The strategies of the attempts that failed, in the order of the attempts.
FailedStrategies ==
    LET failed == SelectSeq(log, LAMBDA e : e.kind = "attempt" /\ e.outcome = "failed")
    IN  [i \in 1..Len(failed) |-> failed[i].strategy]

\* C24: when the acquisition ends by raising, the error it raises carries
\* every strategy that was attempted and failed, each with its reason, in the
\* order of the attempts.
C24_ErrorCarriesAttempts ==
    acq_pc = "raised" => acq_error.reasons = FailedStrategies

\* C25: no external call or sleep of the acquisition runs on the thread of
\* the event loop: each one runs in an executor thread or in a child process.
C25_OffEventLoop ==
    \A k \in DOMAIN log : log[k].thread \in {"executor", "subprocess"}

\* C26: when the acquisition has ended, by returning or by raising, none of
\* the files it wrote exists any more.
C26_NothingLeftBehind ==
    AcqDone => disk = {}

\* A step that changes the task list after the tasks were created changes
\* the slot of one task, which was still running, and leaves the chunks alone.
OneOwnerStep ==
    (tasks # <<>> /\ tasks' # tasks) =>
        /\ Len(tasks') = Len(tasks)
        /\ chunks' = chunks
        /\ \E i \in 1..Len(tasks) :
              /\ tasks[i].state = "running"
              /\ completed' = Append(completed, i)
              /\ \A j \in 1..Len(tasks) : j # i => tasks'[j] = tasks[j]

\* Every slot holds what its own task wrote, and nothing before that.
SlotsOwned ==
    \A i \in 1..Len(tasks) :
        /\ tasks[i].state = "done" => tasks[i].result = ChunkReply(i)
        /\ tasks[i].state # "done" => tasks[i].result = NoValue

\* The reduce stage has read the summaries only when every task was done, and
\* read one whole summary per chunk.
ReduceReadsComplete ==
    pc \in {"reduce", "returned"} =>
        /\ \A i \in 1..Len(tasks) : tasks[i].state = "done"
        /\ Len(reduce_input) = Len(chunks)
        /\ \A k \in 1..Len(reduce_input) : reduce_input[k].summary = ChunkReply(k)

\* C28: in the map stage every summary is written by one task, the task of
\* its chunk, once, whatever the order in which the tasks finish; the chunks
\* are not written; and the reduce stage reads the summaries only after all
\* of them are complete.
C28_NoSharedMutation ==
    [](SlotsOwned /\ ReduceReadsComplete) /\ [][OneOwnerStep]_vars

\* The reduce stage was entered after three tasks finished in an order other
\* than the order of their chunks.
C28_Witness ==
    /\ pc = "reduce"
    /\ Len(tasks) = 3
    /\ completed = <<3, 1, 2>>

\* ================================================ claims: the transcription
\* C21: the speech-to-text service is never sent a request for a missing
\* file or for an audio larger than 25 MB, whichever transcriber was
\* selected; a file of exactly 25 MB that exists is not rejected by the size
\* test.
C21_OversizeRejected ==
    /\ \A k \in DOMAIN tr_log :
          tr_log[k].exists /\ tr_log[k].size <= WhisperLimitMB * MiB
    /\ (/\ tr_pc = "raised"
        /\ tr_log = <<>>
        /\ transcription.transcriber # "none") =>
            ~audio.exists \/ audio.size > WhisperLimitMB * MiB

\* C31: once the wrapper was constructed, its transcriber is the Claude one
\* exactly when use_claude is true and a Claude key was given, else the
\* Whisper one when an OpenAI key was given, else there is none and the
\* construction raised ValueError without any request; every request of a
\* wrapper built with an OpenAI key and no Claude key went to Whisper.
C31_SelectionByKeys ==
    /\ tr_pc # "init" =>
          IF transcription.use_claude /\ transcription.claude_api_key
          THEN transcription.transcriber = "claude"
          ELSE IF transcription.openai_api_key
          THEN transcription.transcriber = "whisper"
          ELSE /\ transcription.transcriber = "none"
               /\ tr_pc = "raised"
               /\ tr_error = "ValueError"
               /\ tr_log = <<>>
    /\ \A k \in DOMAIN tr_log :
          /\ tr_log[k].service = transcription.transcriber
          /\ (transcription.openai_api_key /\ ~transcription.claude_api_key)
                => tr_log[k].service = "whisper"

\* Transcription(openai_api_key), use_claude left at its default True: the
\* audio was transcribed by a request to Whisper.
C31_Witness ==
    /\ transcription.openai_api_key
    /\ ~transcription.claude_api_key
    /\ transcription.use_claude
    /\ tr_pc = "returned"
    /\ Len(tr_log) = 1
    /\ tr_log[1].service = "whisper"

\* C33: when summarize has returned or raised, none of the chunk tasks it
\* created is still running its remote call.
C33_NoCallOutlivesSummarize ==
    pc \in {"returned", "failed"} =>
        \A k \in 1..Len(tasks) : tasks[k].state # "running"

\* ============================================ claims: _send_video_summary
\* The transcript of the dictionary, and the bodies of the replies that
\* follow the first one.
SentTranscript == GetOr(send_result, "transcript", <<>>)
SentBodies == [k \in 1..(Len(outbox) - 1) |-> outbox[k + 1].body]

PartsExpected == (Len(SentTranscript) + PartLimit - 1) \div PartLimit

\* C34: the first reply is the summary and no later one is; for a transcript
\* longer than 4000 characters the replies after it are the parts 1/n, 2/n,
\* ... with n = ceil(len / 4000), each of at most 4000 characters, which put
\* together are the transcript from its start, and all of it once the method
\* has returned; a transcript of at most 4000 characters is one reply that
\* carries it whole.
C34_PartsInOrder ==
    /\ outbox # <<>> => outbox[1].kind = "summary"
    /\ \A k \in 2..Len(outbox) : outbox[k].kind # "summary"
    /\ Len(SentTranscript) > PartLimit =>
          /\ \A k \in 2..Len(outbox) :
                /\ outbox[k].kind = "transcript_part"
                /\ outbox[k].index = k - 1
                /\ outbox[k].total = PartsExpected
                /\ Len(outbox[k].body) <= PartLimit
          /\ Flatten(SentBodies) =
                SubSeq(SentTranscript, 1, Len(Flatten(SentBodies)))
          /\ send_pc = "returned" =>
                /\ Len(outbox) = 1 + PartsExpected
                /\ Flatten(SentBodies) = SentTranscript
    /\ Len(SentTranscript) <= PartLimit =>
          /\ Len(outbox) <= 2
          /\ \A k \in 2..Len(outbox) :
                /\ outbox[k].kind = "transcript"
                /\ outbox[k].body = SentTranscript
          /\ send_pc = "returned" => Len(outbox) = 2

\* A transcript of two full parts and one character was sent in three parts
\* after the summary.
C34_Witness ==
    /\ send_pc = "returned"
    /\ Len(SentTranscript) = 2 * PartLimit + 1
    /\ Len(outbox) = 4
    /\ outbox[4].index = 3
    /\ Len(outbox[4].body) = 1

\* =================================================== claims: generate_post
\* C35: in the request _generate_post_sync sent, the marker follows the
\* transcription exactly when fewer characters of the transcription were
\* sent than it has; a transcription of which every character was sent was
\* sent as it is, without the marker.
C35_MarkerIffTruncated ==
    post_pc \in {"requested", "returned", "raised"} =>
        /\ post_request.marker <=>
              Len(post_request.text) < Len(post_input.text)
        /\ Len(post_request.text) = Len(post_input.text) =>
              post_request.text = post_input.text /\ ~post_request.marker

\* ================================================ claims: the id of the video
\* The URL holds no video id: its host is not one of YouTube or it has fewer
\* than 11 characters where the id is.
NoVideoId ==
    \/ youtube_url.host \notin {"youtube.com", "youtu.be"}
    \/ youtube_url.id_chars < IdLength

\* C36: for a URL that holds no video id, process_youtube_url and
\* get_subtitles do nothing but raise: the call is at its start or has
\* raised at the extraction of the id, and nothing was attempted, written
\* or returned; and whenever the call raised at the extraction of the id,
\* nothing was attempted, written or returned.
C36_InvalidUrlFailsFirst ==
    /\ (entry \in {"process_youtube_url", "get_subtitles"}
        /\ youtube_url # NoUrl /\ NoVideoId) =>
          /\ acq_pc \in {"called", "raised"}
          /\ acq_pc = "raised" => acq_error.at = "url"
    /\ (acq_pc = "raised" /\ acq_error.at = "url") =>
          /\ log = <<>>
          /\ disk = {}
          /\ acquired = NoText
    /\ (entry \in {"process_youtube_url", "get_subtitles"}
        /\ youtube_url # NoUrl /\ NoVideoId) => log = <<>>

\* process_youtube_url raised ValueError for a YouTube URL with ten
\* characters where the id is.
C36_Witness ==
    /\ entry = "process_youtube_url"
    /\ youtube_url.host = "youtube.com"
    /\ youtube_url.id_chars = IdLength - 1
    /\ acq_pc = "raised"
    /\ acq_error.type = "ValueError"
    /\ log = <<>>

\* ============================================= claims: cleanup_temp_folder
\* C32: when cleanup_temp_folder has returned, no regular file of the folder
\* is older (by the wall clock, since its last modification) than
\* max_age_hours; what it removed was a regular file older than that; and the
\* call ends by returning.
C32_OldFilesRemoved ==
    /\ cleanup_pc = "returned" =>
          \A e \in temp_folder :
              e.is_file => clock.wall - e.mtime <= SecondsPerHour * max_age_hours
    /\ \A e \in unlinked :
          e.is_file /\ clock.wall - e.mtime > SecondsPerHour * max_age_hours
    /\ cleanup_pc \in {"idle", "loop", "returned"}

\* ============================================ claims: _parse_subtitle_file
SpokenLines ==
    LET spoken == SelectSeq(subtitle_file, LAMBDA l : l.role = "spoken")
    IN  [i \in 1..Len(spoken) |-> Strip(spoken[i].text)]

\* C22: the text returned for a file that was read is the spoken lines of
\* the file, each stripped, in their order, joined by single spaces: the
\* header, the sequence numbers, the timing cues and the blank lines are
\* removed and no spoken line is, a spoken line of digits included.
C22_SpokenLinesKept ==
    parse_pc = "returned" => parsed = JoinSpace(SpokenLines)

\* ========================================================= claims: the bot
\* The replies of a kind among those sent for the update.
SentOf(kind) == {i \in DOMAIN sent : sent[i].kind = kind}

\* The handler of a YouTube link, called for a user it serves, has returned.
LinkHandled ==
    /\ update.kind = "text_link"
    /\ authorized_user_ids = {} \/ update.user \in authorized_user_ids
    /\ handler_pc = "returned"

ShutdownOrder == <<"updater.stop", "application.stop", "application.shutdown">>

Unlisted ==
    /\ update # NoUpdate
    /\ authorized_user_ids # {}
    /\ update.user \notin authorized_user_ids

\* C30: for an update of a user who is not in the non-empty list of
\* authorized users the handler returns without sending anything and without
\* fetching or processing anything; with an empty list the handlers serve
\* every user: a command or a video that was handled got a reply.
C30_OnlyAuthorizedServed ==
    /\ Unlisted => sent = <<>> /\ handler_log = <<>> /\ handler_pc = "returned"
    /\ (/\ authorized_user_ids = {}
        /\ update.kind \in {"cmd_start", "cmd_help", "text_link", "video",
                             "video_document"}
        /\ handler_pc = "returned") => sent # <<>>

\* A YouTube link of an unlisted user was handled after a video of a listed
\* user had been downloaded: nothing was sent for the link.
C30_Witness ==
    /\ Unlisted
    /\ update.kind = "text_link"
    /\ handler_pc = "returned"
    /\ sent = <<>>
    /\ temp_video

====
